---- MODULE Spec2Model ----
(***************************************************************************)
(* State-machine model of src/sora_hunt.py: the shared AppState store, the *)
(* background poller thread (_poll_sources / _process_entries /            *)
(* _log_event), the main thread's start-up log event and one HTTP reader   *)
(* (codes_json).  Every `with state.lock:` block is two steps: the acquire *)
(* and the body-with-release; statements outside a lock are steps of their *)
(* own, so that a reader can interleave exactly where the code allows it.  *)
(***************************************************************************)
EXTENDS Integers, Sequences, FiniteSets, TLC

(***************************************************************************)
(* Bounds of the model.                                                    *)
(***************************************************************************)
\* number of fetcher calls after which the poller starts no further cycle (the
\* loop itself is endless), and the number of fetcher calls of a cycle that
\* are followed: a registry with more enabled sources is followed up to the
\* fetch of its source MaxFetches + 1
MaxFetches == 3
\* number of poll cycles by whose end the main thread has entered _log_event
\* and asked for the lock (line 665): a bound on how long the main thread is
\* kept waiting by the scheduler
MainCycles == 1
\* number of holds of the lock by a reader up to which the holds that the
\* poller waits through at one with statement are counted
MaxWaits == 2
\* deque capacities; the code uses 1000 and 500 (src/sora_hunt.py:30-31),
\* scaled down here so that overflow and eviction are reached
MAX_CANDIDATES == 2
MAX_LOG_ENTRIES == 3

(***************************************************************************)
(* Program constants.                                                      *)
(***************************************************************************)
DEFAULT_POLL_INTERVAL == 60
DEFAULT_MAX_POSTS == 75
\* line 184
max_retries == 3

\* Optional[...] values: None is the empty tuple, a value v is <<v>>
None == <<>>
Some(v) == <<v>>

Max(a, b) == IF a >= b THEN a ELSE b
Min(a, b) == IF a <= b THEN a ELSE b

(***************************************************************************)
(* Text: a string is a sequence of one-character strings.  The characters  *)
(* are those of Basic Latin and Latin-1 Supplement, and the few others     *)
(* below, which are written by their code point.                           *)
(***************************************************************************)
LowerLetters == <<"a","b","c","d","e","f","g","h","i","j","k","l","m",
                  "n","o","p","q","r","s","t","u","v","w","x","y","z">>
UpperLetters == <<"A","B","C","D","E","F","G","H","I","J","K","L","M",
                  "N","O","P","Q","R","S","T","U","V","W","X","Y","Z">>
Digits == <<"0","1","2","3","4","5","6","7","8","9">>
\* the cased letters of Latin-1 Supplement, but for the sharp s, the micro
\* sign and the y with diaeresis
Latin1Lower == <<"à","á","â","ã","ä","å","æ","ç","è","é","ê","ë","ì","í","î","ï","ð","ñ","ò","ó","ô","õ","ö","ø","ù","ú","û","ü","ý","þ">>
Latin1Upper == <<"À","Á","Â","Ã","Ä","Å","Æ","Ç","È","É","Ê","Ë","Ì","Í","Î","Ï","Ð","Ñ","Ò","Ó","Ô","Õ","Ö","Ø","Ù","Ú","Û","Ü","Ý","Þ">>

LongS == "<U+017F>"
DotlessI == "<U+0131>"
DottedI == "<U+0130>"
DotAbove == "<U+0307>"
\* the Arabic-Indic digits, decimal digits beyond ASCII
ArabicDigits == <<"<U+0660>","<U+0661>","<U+0662>","<U+0663>","<U+0664>",
                  "<U+0665>","<U+0666>","<U+0667>","<U+0668>","<U+0669>">>
ArabicThree == ArabicDigits[4]
LigatureFi == "<U+FB01>"
CapitalMu == "<U+039C>"
SmallMu == "<U+03BC>"
CapitalYDiaeresis == "<U+0178>"
KelvinSign == "<U+212A>"

Range(s) == {s[i] : i \in DOMAIN s}
IndexOf(s, c) == CHOOSE i \in DOMAIN s : s[i] = c

\* "".join(parts)
RECURSIVE Join(_)
Join(parts) ==
    IF parts = <<>> THEN <<>>
    ELSE IF Len(parts) = 1 THEN parts[1]
    ELSE LET half == Len(parts) \div 2
         IN Join(SubSeq(parts, 1, half)) \o Join(SubSeq(parts, half + 1, Len(parts)))

\* str.upper() on one character: the result can be two characters
UpperChar(c) ==
    IF c \in Range(LowerLetters) THEN <<UpperLetters[IndexOf(LowerLetters, c)]>>
    ELSE IF c \in Range(Latin1Lower) THEN <<Latin1Upper[IndexOf(Latin1Lower, c)]>>
    ELSE IF c = "ß" THEN <<"S","S">>
    ELSE IF c = LigatureFi THEN <<"F","I">>
    ELSE IF c = LongS THEN <<"S">>
    ELSE IF c = DotlessI THEN <<"I">>
    ELSE IF c = "µ" \/ c = SmallMu THEN <<CapitalMu>>
    ELSE IF c = "ÿ" THEN <<CapitalYDiaeresis>>
    ELSE <<c>>
\* str.upper()
Upper(text) == Join([i \in DOMAIN text |-> UpperChar(text[i])])

IsDigit(c) == c \in Range(Digits)
\* the character class [A-Z0-9] of TOKEN_PATTERN
IsTokenChar(c) == c \in Range(UpperLetters) \/ IsDigit(c)
\* \w of the regex engine for str patterns: the underscore and every
\* character that str.isalnum() holds for
IsWordChar(c) ==
    \/ c \in Range(UpperLetters) \/ c \in Range(LowerLetters) \/ IsDigit(c) \/ c = "_"
    \/ c \in Range(Latin1Lower) \/ c \in Range(Latin1Upper)
    \/ c \in {"ª", "²", "³", "µ", "¹", "º", "¼", "½", "¾", "ß", "ÿ"}
    \/ c \in {LongS, DotlessI, DottedI, LigatureFi, CapitalMu, SmallMu,
              CapitalYDiaeresis, KelvinSign}
    \/ c \in Range(ArabicDigits)

\* `needle in hay` for strings
Contains(hay, needle) ==
    \E i \in 1..(Len(hay) - Len(needle) + 1) : SubSeq(hay, i, i + Len(needle) - 1) = needle

\* length of the run of [A-Z0-9] characters of text that starts at position p
RECURSIVE RunLen(_, _)
RunLen(text, p) ==
    IF p > Len(text) \/ ~IsTokenChar(text[p]) THEN 0 ELSE 1 + RunLen(text, p + 1)

\* TOKEN_PATTERN.findall(text) with TOKEN_PATTERN = \b[A-Z0-9]{5,12}\b:
\* the scan moves left to right and matches do not overlap
RECURSIVE FindAll(_, _)
FindAll(text, p) ==
    IF p > Len(text) THEN <<>>
    ELSE LET n == RunLen(text, p)
             startsWord == p = 1 \/ ~IsWordChar(text[p - 1])
             endsWord == p + n > Len(text) \/ ~IsWordChar(text[p + n])
         IN IF startsWord /\ n >= 5 /\ n <= 12 /\ endsWord
            THEN <<SubSeq(text, p, p + n - 1)>> \o FindAll(text, p + n)
            ELSE FindAll(text, p + 1)

EXCLUDED == { <<"H","T","T","P">>, <<"H","T","M","L">>, <<"J","S","O","N">>,
              <<"X","M","L">>, <<"H","T","T","P","S">> }

\* list(dict.fromkeys(s)): first occurrences, in order
RECURSIVE Dedup(_)
Dedup(s) ==
    IF s = <<>> THEN <<>>
    ELSE LET init == Dedup(SubSeq(s, 1, Len(s) - 1))
             last == s[Len(s)]
         IN IF last \in Range(init) THEN init ELSE Append(init, last)

\* mutant: every match of the pattern is kept
KeepAny(token) == TRUE

\* lines 521-522: a digit, and no excluded substring
KeepToken(token) ==
    /\ \E i \in DOMAIN token : IsDigit(token[i])
    /\ ~\E ex \in EXCLUDED : Contains(token, ex)

_extract_tokens(text) ==
    Dedup(SelectSeq(FindAll(Upper(text), 1), KeepToken))


(***************************************************************************)
(* _calculate_confidence (lines 496-511).  Scores are in hundredths: 0.5   *)
(* is 50, 0.15 is 15.                                                      *)
(***************************************************************************)
\* str.lower() on one character: the result can be two characters
LowerChar(c) ==
    IF c \in Range(UpperLetters) THEN <<LowerLetters[IndexOf(UpperLetters, c)]>>
    ELSE IF c \in Range(Latin1Upper) THEN <<Latin1Lower[IndexOf(Latin1Upper, c)]>>
    ELSE IF c = DottedI THEN <<"i", DotAbove>>
    ELSE IF c = CapitalMu THEN <<SmallMu>>
    ELSE IF c = CapitalYDiaeresis THEN <<"ÿ">>
    ELSE IF c = KelvinSign THEN <<"k">>
    ELSE <<c>>
\* str.lower()
Lower(text) == Join([i \in DOMAIN text |-> LowerChar(text[i])])

\* lines 66-77
INVITE_KEYWORDS ==
    << <<"i","n","v","i","t","e">>,
       <<"c","o","d","e">>,
       <<"b","e","t","a">>,
       <<"a","c","c","e","s","s">>,
       <<"k","e","y">>,
       <<"t","o","k","e","n">>,
       <<"g","i","v","e","a","w","a","y">>,
       <<"s","h","a","r","i","n","g">>,
       <<"r","e","d","e","e","m">>,
       <<"s","i","g","n","u","p">> >>

\* the words of line 508
NOISE_WORDS == { <<"e","r","r","o","r">>, <<"e","x","c","e","p","t","i","o","n">>, <<"s","t","a","c","k">>, <<"d","e","b","u","g">> }

\* `"sora" in text_lower` (line 505)
HasBrand(text_lower) == Contains(text_lower, <<"s","o","r","a">>)

\* line 508
HasNoise(text_lower) == \E word \in NOISE_WORDS : Contains(text_lower, word)

\* line 502
KeywordCount(text_lower) ==
    Cardinality({k \in DOMAIN INVITE_KEYWORDS : Contains(text_lower, INVITE_KEYWORDS[k])})

\* mutant: the keyword bonus has no cap
UncappedBonus(keyword_count) == keyword_count * 10

\* line 503: min(keyword_count * 0.1, 0.3)
KeywordBonus(keyword_count) == Min(keyword_count * 10, 30)

_calculate_confidence(text, token) ==
    LET text_lower == Lower(text)
        score == 50 + KeywordBonus(KeywordCount(text_lower))
                    + (IF HasBrand(text_lower) THEN 15 ELSE 0)
                    - (IF HasNoise(text_lower) THEN 30 ELSE 0)
    IN Min(Max(score, 10), 100)

(***************************************************************************)
(* _build_example_snippet (lines 528-554).                                 *)
(***************************************************************************)
\* html.escape on one character (quote=True)
EscapeChar(c) ==
    IF c = "&" THEN <<"&","a","m","p",";">>
    ELSE IF c = "<" THEN <<"&","l","t",";">>
    ELSE IF c = ">" THEN <<"&","g","t",";">>
    ELSE IF c = "\"" THEN <<"&","q","u","o","t",";">>
    ELSE IF c = "'" THEN <<"&","#","x","2","7",";">>
    ELSE <<c>>

\* mutant: the text is copied unescaped
NotEscaped(text) == text

\* html.escape(text)
Escape(text) == Join([i \in DOMAIN text |-> EscapeChar(text[i])])

\* the characters str.strip() removes
IsSpace(c) ==
    c \in {" ", "\n", "\t", "\r", "\f", " ", "<U+000B>", "<U+001C>", "<U+001D>", "<U+001E>",
          "<U+001F>", "<U+0085>"}

\* str.strip()
RECURSIVE Strip(_)
Strip(text) ==
    IF text = <<>> THEN <<>>
    ELSE IF IsSpace(Head(text)) THEN Strip(Tail(text))
    ELSE IF IsSpace(text[Len(text)]) THEN Strip(SubSeq(text, 1, Len(text) - 1))
    ELSE text

\* str.replace("\n", " ")
NewlinesToSpaces(text) == [i \in DOMAIN text |-> IF text[i] = "\n" THEN " " ELSE text[i]]

\* the character all characters that re.IGNORECASE takes for equal to c are
\* folded to
Fold(c) ==
    IF c \in {DotlessI, DottedI} THEN "i"
    ELSE IF c = LongS THEN "s"
    ELSE IF c = "µ" THEN SmallMu
    ELSE LowerChar(c)[1]

\* the token matches text at position p, ignoring case (re.IGNORECASE)
MatchesAt(text, token, p) ==
    /\ p + Len(token) - 1 <= Len(text)
    /\ \A k \in DOMAIN token : Fold(text[p + k - 1]) = Fold(token[k])

\* re.search / the next match of finditer: the first position from p on at
\* which the token matches, 0 when there is none
SearchFrom(text, token, p) ==
    LET found == {i \in p..Len(text) : MatchesAt(text, token, i)}
    IN IF found = {} THEN 0 ELSE CHOOSE i \in found : \A k \in found : i <= k

MarkOpen == <<"<","m","a","r","k",">">>
MarkClose == <<"<","/","m","a","r","k",">">>

\* lines 545-551: the parts before, in and after every match from p on
RECURSIVE Highlight(_, _, _)
Highlight(text, token, p) ==
    LET m == SearchFrom(text, token, p)
    IN IF m = 0 THEN Escape(SubSeq(text, p, Len(text)))
       ELSE Escape(SubSeq(text, p, m - 1))
            \o MarkOpen \o Escape(SubSeq(text, m, m + Len(token) - 1)) \o MarkClose
            \o Highlight(text, token, m + Len(token))

\* the token is no empty string
_build_example_snippet(title, body, token) ==
    LET combined == Strip(title \o <<"\n">> \o body)
        m == SearchFrom(combined, token, 1)
        start == IF m # 0 THEN Max(m - 1 - 60, 0) ELSE 0
        end == IF m # 0 THEN Min(m - 1 + Len(token) + 60, Len(combined))
               ELSE Min(Len(combined), 200)
        window == Strip(NewlinesToSpaces(SubSeq(combined, start + 1, end)))
    IN IF combined = <<>> THEN Escape(IF title # <<>> THEN title ELSE token)
       ELSE Highlight(window, token, 1)

(***************************************************************************)
(* Configuration (environment variables).                                  *)
(***************************************************************************)
\* the value of a decimal digit, ASCII or not
IsDecimal(c) == c \in Range(Digits) \/ c \in Range(ArabicDigits)
DigitValue(c) == IF c \in Range(Digits) THEN IndexOf(Digits, c) - 1 ELSE IndexOf(ArabicDigits, c) - 1

\* the value of a run of digits with underscores in it
RECURSIVE DigitsValue(_)
DigitsValue(s) ==
    IF s = <<>> THEN 0
    ELSE IF s[Len(s)] = "_" THEN DigitsValue(SubSeq(s, 1, Len(s) - 1))
    ELSE 10 * DigitsValue(SubSeq(s, 1, Len(s) - 1)) + DigitValue(s[Len(s)])

\* digits, with single underscores between them
IsDigitRun(s) ==
    /\ s # <<>>
    /\ \A i \in DOMAIN s : IsDecimal(s[i]) \/ s[i] = "_"
    /\ s[1] # "_" /\ s[Len(s)] # "_"
    /\ \A i \in 1..(Len(s) - 1) : ~(s[i] = "_" /\ s[i + 1] = "_")

\* the white space int() skips: that of str.isspace() but for the four
\* separators of ASCII
IsIntSpace(c) == IsSpace(c) /\ c \notin {"<U+001C>", "<U+001D>", "<U+001E>", "<U+001F>"}

RECURSIVE StripForInt(_)
StripForInt(text) ==
    IF text = <<>> THEN <<>>
    ELSE IF IsIntSpace(Head(text)) THEN StripForInt(Tail(text))
    ELSE IF IsIntSpace(text[Len(text)]) THEN StripForInt(SubSeq(text, 1, Len(text) - 1))
    ELSE text

\* int(text): white space around the number is dropped, then come an
\* optional sign and decimal digits, which may have single underscores
\* between them; None stands for the ValueError of any other text
ParseInt(text) ==
    LET number == StripForInt(text)
        signed == number # <<>> /\ number[1] \in {"+", "-"}
        digits == IF signed THEN Tail(number) ELSE number
    IN IF ~IsDigitRun(digits) THEN None
       ELSE IF signed /\ number[1] = "-" THEN Some(0 - DigitsValue(digits))
       ELSE Some(DigitsValue(digits))

\* int(os.getenv(name, default)): the variable is None when unset
IntFromEnv(value, default) == IF value = None THEN Some(default) ELSE ParseInt(value[1])

\* _get_config(): None stands for the ValueError raised by int()
_get_config(environ) ==
    LET poll_interval == IntFromEnv(environ.POLL_INTERVAL_SECONDS, DEFAULT_POLL_INTERVAL)
        max_posts == IntFromEnv(environ.MAX_POSTS, DEFAULT_MAX_POSTS)
    IN IF poll_interval = None \/ max_posts = None THEN None
       ELSE Some([poll_interval |-> Max(10, poll_interval[1]),
                  max_posts |-> Max(1, Min(max_posts[1], 100))])

\* the environments the process is started in
Environments ==
    { [POLL_INTERVAL_SECONDS |-> None, MAX_POSTS |-> None],
      [POLL_INTERVAL_SECONDS |-> Some(<<"a","b","c">>), MAX_POSTS |-> None] }

(***************************************************************************)
(* Sources: the SOURCES registry (lines 447-493).  `fetcher` names the     *)
(* function the entry's fetcher calls, `catches` says whether that function*)
(* catches every exception itself and returns [] (lines 331-333, 363-365,  *)
(* 398-400); search_url and description are the arguments the X entries    *)
(* pass to _fetch_x_search.  Delays are in seconds.                        *)
(***************************************************************************)
SourceSpec(name, fetcher, catches, rate_limit_delay) ==
    [name |-> name, fetcher |-> fetcher, catches |-> catches, enabled |-> TRUE,
     rate_limit_delay |-> rate_limit_delay, search_url |-> "", description |-> <<>>]

XSource(name, search_url, description) ==
    [name |-> name, fetcher |-> "_fetch_x_search", catches |-> FALSE, enabled |-> TRUE,
     rate_limit_delay |-> 1, search_url |-> search_url, description |-> description]

SOURCES ==
    << SourceSpec("Reddit search (configured)", "_fetch_reddit_search", FALSE, 0),
       SourceSpec("Reddit search (Sora invite code)", "_fetch_reddit_search_for", FALSE, 0),
       SourceSpec("Reddit search (Sora beta access)", "_fetch_reddit_search_for", FALSE, 0),
       SourceSpec("Reddit /r/ChatGPT", "_fetch_reddit_subreddit", FALSE, 0),
       SourceSpec("Reddit /r/OpenAI", "_fetch_reddit_subreddit", FALSE, 0),
       SourceSpec("Reddit /r/SoraAI", "_fetch_reddit_subreddit", FALSE, 0),
       SourceSpec("Reddit /r/artificial", "_fetch_reddit_subreddit", FALSE, 0),
       XSource("X live (Sora invite code)", "https://x.com/search?q=Sora%20invite%20code&f=live",
               <<"L","i","v","e"," ","t","w","e","e","t","s",":"," ","S","o","r","a"," ","i","n","v","i","t","e"," ","c","o","d","e">>),
       XSource("X live (#SoraInvite)", "https://x.com/search?q=%23SoraInvite&f=live",
               <<"L","i","v","e"," ","t","w","e","e","t","s",":"," ","#","S","o","r","a","I","n","v","i","t","e">>),
       XSource("X live (#SoraAccess)", "https://x.com/search?q=%23SoraAccess&f=live",
               <<"L","i","v","e"," ","t","w","e","e","t","s",":"," ","#","S","o","r","a","A","c","c","e","s","s">>),
       SourceSpec("Bluesky search", "_fetch_bluesky_search", TRUE, 2),
       SourceSpec("GitHub issues", "_fetch_github_issues", TRUE, 3),
       SourceSpec("Mastodon search", "_fetch_mastodon_search", TRUE, 2),
       SourceSpec("Hacker News", "_fetch_hacker_news", FALSE, 0),
       SourceSpec("OpenAI Community", "_fetch_openai_forum", FALSE, 0) >>

SourceIds == DOMAIN SOURCES

\* the place of a source in the registry
Place(name) == CHOOSE i \in SourceIds : SOURCES[i].name = name

\* the sources whose answers vary in this model
RedditConfigured == Place("Reddit search (configured)")
XLive == Place("X live (Sora invite code)")
Bluesky == Place("Bluesky search")

(***************************************************************************)
(* JSON values as response.json() returns them: None, a str, an int, a     *)
(* list, a dict.  The text of a str is a sequence of characters, the text  *)
(* of an int its decimal form.                                             *)
(***************************************************************************)
JNull == [kind |-> "null"]
JStr(text) == [kind |-> "str", text |-> text]
JInt(text) == [kind |-> "int", text |-> text]
JList(items) == [kind |-> "list", items |-> items]
JObject(fields) == [kind |-> "object", fields |-> fields]

\* the title of an entry is the JSON value the fetcher copied, unchecked
StrTitle(text) == JStr(text)
IntTitle(text) == JInt(text)

\* an exception that propagates out of the fetcher
Raised == [kind |-> "raise"]

\* value.get(key, default): only a dict has the method, anything else raises
\* AttributeError
Get(value, key, default) ==
    IF value.kind = "raise" THEN value
    ELSE IF value.kind # "object" THEN Raised
    ELSE IF key \in DOMAIN value.fields THEN value.fields[key]
    ELSE default

\* bool(value)
Truthy(value) ==
    IF value.kind \in {"null", "raise"} THEN FALSE
    ELSE IF value.kind = "int" THEN value.text # <<"0">>
    ELSE IF value.kind = "str" THEN value.text # <<>>
    ELSE IF value.kind = "list" THEN value.items # <<>>
    ELSE DOMAIN value.fields # {}

\* a or b
Or(a, b) == IF a.kind = "raise" \/ Truthy(a) THEN a ELSE b

\* the text an f-string puts for a value that is None, a str or an int
Format(value) ==
    IF value.kind = "null" THEN <<"N","o","n","e">> ELSE value.text

\* the str made of the characters of text
RECURSIVE Str(_)
Str(text) == IF text = <<>> THEN "" ELSE text[1] \o Str(Tail(text))

\* the url of an entry: the str the fetcher copied (a str in every payload of
\* this model)
UrlOf(value) == Str(Format(value))

\* `for item in value` where every item is then asked for a field with
\* item.get: a list gives its items; nothing is asked of the items of an
\* empty dict or str; a dict's keys and a str's characters have no get, and
\* None and an int cannot be iterated
Items(value) ==
    IF value.kind = "list" THEN value
    ELSE IF value.kind \in {"object", "str"} /\ ~Truthy(value) THEN JList(<<>>)
    ELSE Raised

\* the entries a loop over items gives: the loop raises when the iteration
\* or the conversion of an item does
Results(items, converted) ==
    IF items.kind = "raise" \/ \E i \in DOMAIN converted : converted[i].kind = "raise"
    THEN [raised |-> TRUE, entries |-> <<>>]
    ELSE [raised |-> FALSE, entries |-> converted]

\* lines 331-333, 363-365, 398-400: `except Exception: return []`
Caught(result) == [raised |-> FALSE, entries |-> result.entries]

\* an entry: a dict with title, body and url
Entry(title, body, url) == [kind |-> "entry", title |-> title, body |-> body, url |-> url]

(***************************************************************************)
(* The fetchers, applied to the response _make_request returned.           *)
(***************************************************************************)
\* lines 226-231, 252-257, 273-278: one item of the listing turned into an
\* entry
RedditEntry(item) ==
    LET data == Get(item, "data", JObject(<<>>))
        title == Get(data, "title", JStr(<<>>))
        body == Or(Get(data, "selftext", JStr(<<>>)), JStr(<<>>))
        permalink == Or(Get(data, "permalink", JNull), JStr(<<>>))
        url == Get(data, "url", JStr(<<>>))
    IN IF title.kind = "raise" THEN Raised
       ELSE Entry(title, Format(body),
                  IF Truthy(permalink) THEN "https://www.reddit.com" \o Str(Format(permalink))
                  ELSE UrlOf(url))

\* _fetch_reddit_search, lines 221-232, applied to the decoded response;
\* _fetch_reddit_search_for (lines 247-258) and _fetch_reddit_subreddit
\* (lines 268-279) do the same
_fetch_reddit_search(payload) ==
    LET items == Items(Get(Get(payload, "data", JObject(<<>>)), "children", JList(<<>>)))
    IN Results(items, IF items.kind = "raise" THEN <<>>
                      ELSE [i \in DOMAIN items.items |-> RedditEntry(items.items[i])])

\* _fetch_x_search, lines 288-296: one entry whatever the text
_fetch_x_search(search_url, description, text) ==
    [raised |-> FALSE,
     entries |-> <<Entry(JStr(description), SubSeq(text, 1, Min(Len(text), 15000)), search_url)>>]

\* str.split('/')[-1]
RECURSIVE LastSegment(_)
LastSegment(text) ==
    IF text = <<>> \/ text[Len(text)] = "/" THEN <<>>
    ELSE Append(LastSegment(SubSeq(text, 1, Len(text) - 1)), text[Len(text)])

\* lines 315-329: one post turned into an entry; split is a method of str
BlueskyEntry(post) ==
    LET record == Get(post, "record", JObject(<<>>))
        text == Get(record, "text", JStr(<<>>))
        author == Get(Get(post, "author", JObject(<<>>)), "handle", JStr(<<"u","n","k","n","o","w","n">>))
        uri == Get(post, "uri", JStr(<<>>))
    IN IF record.kind = "raise" \/ text.kind = "raise" \/ author.kind = "raise" THEN Raised
       ELSE IF Truthy(uri) /\ uri.kind # "str" THEN Raised
       ELSE Entry(JStr(<<"B","l","u","e","s","k","y"," ","p","o","s","t"," ","b","y"," ","@">> \o Format(author)), Format(text),
                  IF Truthy(uri)
                  THEN "https://bsky.app/profile/" \o Str(Format(author)) \o "/post/"
                       \o Str(LastSegment(uri.text))
                  ELSE "")

\* _fetch_bluesky_search, lines 308-333, applied to the decoded response
_fetch_bluesky_search(payload) ==
    LET posts == Items(Get(payload, "posts", JList(<<>>)))
    IN Caught(Results(posts, IF posts.kind = "raise" THEN <<>>
                             ELSE [i \in DOMAIN posts.items |-> BlueskyEntry(posts.items[i])]))

\* lines 358-361: one item turned into an entry
GitHubEntry(item) ==
    LET title == Get(item, "title", JStr(<<>>))
        body == Or(Get(item, "body", JStr(<<>>)), JStr(<<>>))
        url == Get(item, "html_url", JStr(<<>>))
    IN IF title.kind = "raise" THEN Raised
       ELSE Entry(JStr(<<"G","i","t","H","u","b",":"," ">> \o Format(title)), Format(body), UrlOf(url))

\* _fetch_github_issues, lines 351-365, applied to the decoded response
_fetch_github_issues(payload) ==
    LET items == Items(Get(payload, "items", JList(<<>>)))
    IN Caught(Results(items, IF items.kind = "raise" THEN <<>>
                             ELSE [i \in DOMAIN items.items |-> GitHubEntry(items.items[i])]))

\* where the first '>' of text after position p is, or 0
NextClose(text, p) ==
    IF \E j \in (p + 1)..Len(text) : text[j] = ">"
    THEN CHOOSE j \in (p + 1)..Len(text) :
            text[j] = ">" /\ \A k \in (p + 1)..(j - 1) : text[k] # ">"
    ELSE 0

\* re.sub(r"<[^>]+>", "", text) from position p on
RECURSIVE StripTagsFrom(_, _)
StripTagsFrom(text, p) ==
    IF p > Len(text) THEN <<>>
    ELSE IF text[p] = "<" /\ NextClose(text, p) > p + 1
    THEN StripTagsFrom(text, NextClose(text, p) + 1)
    ELSE <<text[p]>> \o StripTagsFrom(text, p + 1)

\* lines 385-396: one status turned into an entry; re.sub takes a str only
MastodonEntry(status) ==
    LET content == Get(status, "content", JStr(<<>>))
        account == Get(Get(status, "account", JObject(<<>>)), "acct", JStr(<<"u","n","k","n","o","w","n">>))
        url == Get(status, "url", JStr(<<>>))
    IN IF content.kind # "str" \/ account.kind = "raise" THEN Raised
       ELSE Entry(JStr(<<"M","a","s","t","o","d","o","n"," ","p","o","s","t"," ","b","y"," ","@">> \o Format(account)), StripTagsFrom(content.text, 1),
                  UrlOf(url))

\* _fetch_mastodon_search, lines 378-400, applied to the decoded response
_fetch_mastodon_search(payload) ==
    LET statuses == Items(Get(payload, "statuses", JList(<<>>)))
    IN Caught(Results(statuses,
                      IF statuses.kind = "raise" THEN <<>>
                      ELSE [i \in DOMAIN statuses.items |-> MastodonEntry(statuses.items[i])]))

\* lines 417-422: one hit turned into an entry
HackerNewsEntry(hit) ==
    LET title == Or(Or(Get(hit, "title", JNull), Get(hit, "story_title", JNull)), JStr(<<>>))
        body == Or(Or(Get(hit, "story_text", JNull), Get(hit, "comment_text", JNull)),
                   JStr(<<>>))
        url == Or(Or(Get(hit, "url", JNull), Get(hit, "story_url", JNull)), JStr(<<>>))
        id == Get(hit, "objectID", JNull)
    IN IF title.kind = "raise" THEN Raised
       ELSE Entry(title, Format(body),
                  IF ~Truthy(url) /\ Truthy(id)
                  THEN "https://news.ycombinator.com/item?id=" \o Str(Format(id))
                  ELSE UrlOf(url))

\* _fetch_hacker_news, lines 412-423, applied to the decoded response
_fetch_hacker_news(payload) ==
    LET hits == Items(Get(payload, "hits", JList(<<>>)))
    IN Results(hits, IF hits.kind = "raise" THEN <<>>
                     ELSE [i \in DOMAIN hits.items |-> HackerNewsEntry(hits.items[i])])

\* lines 436-443: one topic turned into an entry
ForumEntry(topic) ==
    LET title == Get(topic, "title", JStr(<<>>))
        excerpt == Get(topic, "excerpt", JStr(<<>>))
        slug == Get(topic, "slug", JNull)
        id == Get(topic, "id", JNull)
    IN IF title.kind = "raise" THEN Raised
       ELSE Entry(title, Format(excerpt),
                  IF Truthy(slug) /\ id.kind # "null"
                  THEN "https://community.openai.com/t/" \o Str(Format(slug)) \o "/"
                       \o Str(Format(id))
                  ELSE "")

\* topics[:max_posts] and the loop over it: a dict cannot be sliced
Sliced(value, max_posts) ==
    IF value.kind = "list"
    THEN JList(SubSeq(value.items, 1, Min(Len(value.items), max_posts)))
    ELSE IF value.kind = "str" /\ (~Truthy(value) \/ max_posts = 0) THEN JList(<<>>)
    ELSE Raised

\* _fetch_openai_forum, lines 431-444, applied to the decoded response
_fetch_openai_forum(payload, max_posts) ==
    LET topics == Sliced(Get(Get(payload, "topic_list", JObject(<<>>)), "topics", JList(<<>>)),
                         max_posts)
    IN Results(topics, IF topics.kind = "raise" THEN <<>>
                       ELSE [i \in DOMAIN topics.items |-> ForumEntry(topics.items[i])])

\* source.fetcher(config) once _make_request has returned a response with
\* this body: the decoded JSON, or the text for X
Fetcher(source, body, max_posts) ==
    CASE source.fetcher \in {"_fetch_reddit_search", "_fetch_reddit_search_for",
                             "_fetch_reddit_subreddit"} -> _fetch_reddit_search(body)
      [] source.fetcher = "_fetch_x_search" ->
            _fetch_x_search(source.search_url, source.description, body.text)
      [] source.fetcher = "_fetch_bluesky_search" -> _fetch_bluesky_search(body)
      [] source.fetcher = "_fetch_github_issues" -> _fetch_github_issues(body)
      [] source.fetcher = "_fetch_mastodon_search" -> _fetch_mastodon_search(body)
      [] source.fetcher = "_fetch_hacker_news" -> _fetch_hacker_news(body)
      [] source.fetcher = "_fetch_openai_forum" -> _fetch_openai_forum(body, max_posts)

\* source.fetcher(config) when _make_request raised: the exception
\* propagates, unless the fetcher catches it and returns []
FetcherFailed(source) ==
    IF source.catches THEN [raised |-> FALSE, entries |-> <<>>]
    ELSE [raised |-> TRUE, entries |-> <<>>]

(***************************************************************************)
(* What the network answers.                                               *)
(***************************************************************************)
\* a Reddit listing, and one post of it
Listing(items) == JObject("data" :> JObject("children" :> JList(items)))
RedditPost(title, selftext, url) ==
    JObject("data" :> JObject(("title" :> title) @@ ("selftext" :> JStr(selftext))
                              @@ ("url" :> JStr(url))))

PostA == RedditPost(JStr(<<"a","b","1","2","c">>), <<"A","B","1","2","C"," ","x","y","3","4","5">>, <<"h","t","t","p","s",":","/","/","x","/","1">>)
PostB == JObject("data" :> JObject(("title" :> JStr(<<"G","o","t"," ","z","9","z","9","z">>)) @@ ("selftext" :> JNull)
                                   @@ ("permalink" :> JStr(<<"/","r","/","x","/","2">>))))
PostC == RedditPost(JStr(<<"q","7","q","7","q"," ","H","T","M","L","5","X">>), <<"a","b","1","2","c">>, <<"h","t","t","p","s",":","/","/","x","/","3">>)
\* a post whose title is a number
PostD == RedditPost(JInt(<<"9","0","2","1","0">>), <<"k","4","k","4","k">>, <<"h","t","t","p","s",":","/","/","x","/","4">>)

RecA == RedditEntry(PostA)
RecB == RedditEntry(PostB)
RecC == RedditEntry(PostC)
RecD == RedditEntry(PostD)

\* the text the proxy returns for a search on X
Tweets == <<"q","7","q","7","q"," ","H","T","M","L","5","X"," ","a","b","1","2","c">>

\* the answer of the Bluesky search, and one post of it
Posts(posts) == JObject("posts" :> JList(posts))
BlueskyPost(handle, uri, text) ==
    JObject(("record" :> JObject("text" :> JStr(text)))
            @@ ("author" :> JObject("handle" :> JStr(handle))) @@ ("uri" :> JStr(uri)))

SkyA == BlueskyPost(<<"s","a","m",".","b","s","k","y",".","s","o","c","i","a","l">>, <<"a","t",":","/","/","d","i","d",":","p","l","c",":","1","/","a","p","p",".","b","s","k","y",".","f","e","e","d",".","p","o","s","t","/","3","k">>, <<"A","B","1","2","C"," ","x","y","3","4","5">>)
SkyB == JObject("record" :> JObject("text" :> JStr(<<"G","o","t"," ","z","9","z","9","z">>)))

\* the sources whose answers vary: one of each kind of fetcher, as to
\* exceptions and rate limit; every other source always answers at once,
\* with nothing in it
Varying == {RedditConfigured, XLive, Bluesky}

\* the bodies of the responses a source can give to the first request of a
\* fetch
Bodies(i) ==
    IF i = RedditConfigured
    THEN { Listing(<<PostA, PostB>>), Listing(<<PostC, PostD, PostB>>), Listing(<<>>) }
    ELSE IF i = XLive THEN { JStr(Tweets) }
    ELSE IF i = Bluesky THEN { Posts(<<SkyA, SkyB>>), Posts(<<>>) }
    ELSE IF SOURCES[i].fetcher = "_fetch_x_search" THEN { JStr(<<>>) }
    ELSE { JObject(<<>>) }

\* the bodies of the responses it can give to the second request, after the
\* first one failed
RetryBodies(i) == IF i = XLive THEN { JStr(Tweets) } ELSE {}

\* a listing with records, an object without "data", a listing whose one
\* item has no fields, "data": null, and a top-level list
RedditPayloads ==
    { Listing(<<PostA>>),
      JObject(<<>>),
      Listing(<<JObject(<<>>)>>),
      JObject("data" :> JNull),
      JList(<<>>) }

\* the shape lines 221-231 read: a dict whose "data" is a dict whose
\* "children" is a list of dicts whose "data" is a dict with a title
ExpectedShape(payload) ==
    /\ payload.kind = "object" /\ "data" \in DOMAIN payload.fields
    /\ LET data == payload.fields["data"]
       IN /\ data.kind = "object" /\ "children" \in DOMAIN data.fields
          /\ LET children == data.fields["children"]
             IN /\ children.kind = "list"
                /\ \A i \in DOMAIN children.items :
                      LET item == children.items[i]
                      IN /\ item.kind = "object" /\ "data" \in DOMAIN item.fields
                         /\ item.fields["data"].kind = "object"
                         /\ "title" \in DOMAIN item.fields["data"].fields

\* requests.get raised, or raise_for_status did (lines 193-199)
Failure == [ok |-> FALSE, malformed |-> FALSE, body |-> JNull]

\* a response that is no error
Response(body) == [ok |-> TRUE, malformed |-> FALSE, body |-> body]

\* what the request of this attempt of a fetch of source i can end in; the
\* third request only fails
Responses(i, attempt) ==
    (IF i \in Varying THEN {Failure} ELSE {})
    \cup {Response(body) : body \in IF attempt = 0 THEN Bodies(i)
                                   ELSE IF attempt = 1 THEN RetryBodies(i) ELSE {}}

\* the same when Reddit answers every request with one of RedditPayloads
ServedResponses(i, attempt) ==
    IF i = RedditConfigured
    THEN { [ok |-> TRUE, malformed |-> ~ExpectedShape(p), body |-> p] : p \in RedditPayloads }
    ELSE Responses(i, attempt)

\* f"{title}\n{body}"
Combined(entry) == Format(entry.title) \o <<"\n">> \o entry.body

\* lines 575-577: `source_label not in display_title` raises TypeError when
\* display_title is a number
DisplayTitleRaises(title, source_label) ==
    Truthy(title) /\ source_label # "" /\ title.kind = "int"

(***************************************************************************)
(* The store's operations.                                                 *)
(***************************************************************************)
\* mutant: the deque has no maxlen
UnboundedAppend(q, x, maxlen) == Append(q, x)

\* mutant: a full deque drops its newest entry
EvictNewest(q, x, maxlen) ==
    IF Len(q) >= maxlen THEN Append(SubSeq(q, 1, Len(q) - 1), x) ELSE Append(q, x)

\* deque(maxlen=maxlen).append(x)
DequeAppend(q, x, maxlen) ==
    IF maxlen = 0 THEN <<>>
    ELSE IF Len(q) >= maxlen THEN Append(Tail(q), x)
    ELSE Append(q, x)

\* mutant: the seen check never finds the token
NeverSeen(token, seen) == FALSE

\* `token in state.seen_codes` (line 569)
IsSeen(token, seen) == token \in seen

\* mutant: the set remembers only the newest token
SeenReplace(seen, token) == {token}

\* state.seen_codes.add(token) (line 571)
SeenAdd(seen, token) == seen \cup {token}

\* mutant: the same wait after every failed attempt
ConstantWait(attempt) == 1

\* line 205: time.sleep(2 ** attempt)
Backoff(attempt) == 2 ^ attempt

\* mutant: a failure ends the for loop
AbortCycle(i) == Len(SOURCES) + 1

\* mutant: a failure also skips the source after the failed one
SkipNext(i) == i + 2

\* the `continue` of the for loop after the except block (lines 634-642)
NextAfterFailure(i) == i + 1

\* mutant: the except block logs at the level of the success path
ExceptLogsDebug == "debug"

\* the level the except block logs at (line 637)
ExceptLogLevel == "error"

Reverse(s) == [i \in DOMAIN s |-> s[Len(s) + 1 - i]]

Message(kind, source, code, items, new) ==
    [kind |-> kind, source |-> source, code |-> code, items |-> items, new |-> new]

\* the entry _log_event builds (line 144)
LogEntry(now, level, message) == [timestamp |-> now, level |-> level, message |-> message]

\* the sources a log entry names
Names(entry) == {i \in SourceIds : SOURCES[i].name = entry.message.source}

NoEntry == LogEntry(0, "", Message("", "", <<>>, 0, 0))
NoCandidate == [code |-> <<>>, url |-> "", source |-> "", discovered_at |-> 0]
NoSnapshot == <<>>

(***************************************************************************)
(* State.                                                                  *)
(***************************************************************************)
VARIABLES
    environ,          \* os.environ, fixed when the process starts
    enabled,          \* source.enabled of every source
    clock,            \* wall-clock seconds
    lock,             \* state.lock: None or the thread that holds it
    candidates,       \* state.candidates
    seen_codes,       \* state.seen_codes
    last_poll,        \* state.last_poll
    activity_log,     \* state.activity_log
    error_count,      \* state.error_count
    success_count,    \* state.success_count
    last_success,     \* source.last_success of every source
    last_error,       \* source.last_error of every source
    pc,               \* the poller thread's position in _poll_sources
    cycle,            \* number of cycles started
    config,           \* _poll_sources: config
    start_time,       \* _poll_sources: start_time
    cycle_candidates, \* _poll_sources: cycle_candidates
    src,              \* _poll_sources: index of `source` in SOURCES
    attempt,          \* _make_request: attempt
    entries,          \* _poll_sources: entries
    ei,               \* _process_entries: index of `entry` in entries
    tokens,           \* _process_entries: the tokens of `entry` not handled yet
    new_candidates,   \* _process_entries: new_candidates
    candidate,        \* _process_entries: candidate
    log_entry,        \* _log_event: entry
    log_ret,          \* where the poller continues after _log_event returns
    main_pc,          \* the main thread's position in _start_background_thread
    main_entry,       \* the main thread's _log_event entry
    rpc,              \* the reader's position in codes_json
    snap,             \* codes_json: the snapshot under construction
    ri,               \* codes_json: index of `source` in the sources comprehension
    rs,               \* codes_json: the last_success just read
    hist,             \* history: every Candidate ever appended, in order
    stats,            \* history: what happened to each source in this cycle
    seen_before,      \* history: seen_codes when this cycle started
    cycle_logs,       \* history: the poller's log entries of this cycle, by kind
    commits,          \* history: the health table and counters after each
                      \* completed recordSuccess / recordFailure
    request,          \* one call of _make_request, run on its own
    extraction,       \* one call of _extract_tokens, run on its own
    scoring,          \* one call of _calculate_confidence, run on its own
    snippet,          \* one call of _build_example_snippet, run on its own
    producers,        \* threads that run _process_entries side by side
    readers,          \* threads that run codes_json side by side
    waits             \* history: the holds of the lock by a reader during which
                      \* the poller has waited at its present with statement

store == <<candidates, seen_codes, last_poll, activity_log, error_count, success_count>>
health == <<last_success, last_error>>
poller == <<pc, cycle, config, start_time, cycle_candidates, src, attempt, entries, ei, tokens,
            new_candidates, candidate, log_entry, log_ret>>
main == <<main_pc, main_entry>>
reader == <<rpc, snap, ri, rs>>
history == <<hist, stats, seen_before, cycle_logs, commits>>
calls == <<request, extraction, scoring, snippet, producers, readers>>
vars == <<calls, waits, environ, enabled, clock, lock, store, health, poller, main, reader, history>>

NoCycleLogs == [start |-> 0, new |-> 0, summary |-> 0]

\* cycle_logs after the poller appended an entry of this kind
CountLog(counts, kind) ==
    IF kind = "start" THEN [counts EXCEPT !.start = @ + 1]
    ELSE IF kind = "new" THEN [counts EXCEPT !.new = @ + 1]
    ELSE IF kind \in {"discovered", "none"} THEN [counts EXCEPT !.summary = @ + 1]
    ELSE counts

NoStats ==
    [i \in SourceIds |->
        [called |-> 0, net_failed |-> FALSE, malformed |-> FALSE, raised |-> FALSE,
         returned |-> <<>>,
         error_logs |-> 0, debug_logs |-> 0, success_incs |-> 0, error_incs |-> 0]]

HealthNow == [last_success |-> last_success, last_error |-> last_error,
              success_count |-> success_count, error_count |-> error_count]

\* the store, the sources and the threads when the module has been imported
InitProgram ==
    /\ clock = 0
    /\ waits = 0
    /\ lock = None
    /\ candidates = <<>>
    /\ seen_codes = {}
    /\ last_poll = None
    /\ activity_log = <<>>
    /\ error_count = 0
    /\ success_count = 0
    /\ last_success = [i \in SourceIds |-> None]
    /\ last_error = [i \in SourceIds |-> None]
    /\ pc = "idle"
    /\ cycle = 0
    /\ config = None
    /\ start_time = 0
    /\ cycle_candidates = <<>>
    /\ src = 1
    /\ attempt = 0
    /\ entries = <<>>
    /\ ei = 0
    /\ tokens = <<>>
    /\ new_candidates = <<>>
    /\ candidate = NoCandidate
    /\ log_entry = NoEntry
    /\ log_ret = ""
    /\ main_pc = "log_event"
    /\ main_entry = NoEntry
    /\ rpc = "idle"
    /\ snap = NoSnapshot
    /\ ri = 1
    /\ rs = None
    /\ hist = <<>>
    /\ stats = NoStats
    /\ seen_before = {}
    /\ cycle_logs = NoCycleLogs
    /\ commits = { [last_success |-> [i \in SourceIds |-> None],
                    last_error |-> [i \in SourceIds |-> None],
                    success_count |-> 0, error_count |-> 0] }

NoRequest == [pc |-> "none", attempt |-> 0, outcomes |-> <<>>, sleeps |-> <<>>]
NoExtraction == [pc |-> "none", text |-> <<>>, result |-> <<>>]
NoScoring == [pc |-> "none", text |-> <<>>, token |-> <<>>, result |-> 0]
NoSnippet == [pc |-> "none", title |-> <<>>, body |-> <<>>, token |-> <<>>, result |-> <<>>]
NoProducers == <<>>
NoReaders == <<>>

\* the registry as it is written, and with one source of each kind left
\* enabled: one that lets exceptions through and has no rate limit, one that
\* lets them through and has a rate limit, and one that catches them
AsWritten == [i \in SourceIds |-> SOURCES[i].enabled]
OneOfEachKind == [i \in SourceIds |-> i \in Varying /\ SOURCES[i].enabled]
Registries == {AsWritten, OneOfEachKind}

Init ==
    /\ environ \in Environments
    /\ enabled \in Registries
    /\ InitProgram
    /\ request = NoRequest
    /\ extraction = NoExtraction
    /\ scoring = NoScoring
    /\ snippet = NoSnippet
    /\ producers = NoProducers
    /\ readers = NoReaders

\* a deployment that polls every 5 seconds (raised to 10 by _get_config)
ShortPoll == [POLL_INTERVAL_SECONDS |-> Some(<<"5">>), MAX_POSTS |-> None]

\* the registry with every source between the first one and Bluesky, and
\* every source after Bluesky, switched off
MiddleDisabled == [i \in SourceIds |-> i \in {RedditConfigured, Bluesky} /\ SOURCES[i].enabled]

\* the program started with a configured registry and environment
InitConfigured ==
    /\ \/ environ \in Environments /\ _get_config(environ) = None
          /\ enabled = [i \in SourceIds |-> SOURCES[i].enabled]
       \/ environ = ShortPoll /\ enabled = MiddleDisabled
    /\ InitProgram
    /\ request = NoRequest
    /\ extraction = NoExtraction
    /\ scoring = NoScoring
    /\ snippet = NoSnippet
    /\ producers = NoProducers
    /\ readers = NoReaders

(***************************************************************************)
(* The poller thread: _poll_sources (lines 601-656).                       *)
(***************************************************************************)
\* the poller calls _log_event(message, level) and continues at ret
CallLog(level, message, ret) ==
    /\ log_entry' = LogEntry(clock, level, message)
    /\ log_ret' = ret
    /\ pc' = "log_acquire"

\* the number of sources a cycle fetches
EnabledCount == Cardinality({i \in SourceIds : enabled[i]})

\* the fetches begun in this cycle: those of the enabled sources before src
FetchesBegun == Cardinality({i \in SourceIds : i < src /\ enabled[i]})

\* lines 605-609: a new cycle starts; a ValueError of _get_config is caught
\* nowhere and ends the thread
CycleStart ==
    /\ pc = "idle"
    /\ cycle * EnabledCount < MaxFetches
    /\ cycle' = cycle + 1
    /\ start_time' = clock
    /\ config' = _get_config(environ)
    /\ stats' = NoStats
    /\ seen_before' = seen_codes
    /\ cycle_logs' = NoCycleLogs
    /\ IF _get_config(environ) = None
       THEN /\ pc' = "dead"
            /\ UNCHANGED <<log_entry, log_ret, cycle_candidates, src>>
       ELSE /\ CallLog("info", Message("start", "", <<>>, Len(SOURCES), 0), "for_source")
            /\ cycle_candidates' = <<>>
            /\ src' = 1
    /\ UNCHANGED <<calls, environ, enabled, waits, clock, lock, store, health, attempt, entries, ei, tokens,
                   new_candidates, candidate, main, reader, hist, commits>>

\* the positions at which the poller enters a `with state.lock:` block, and
\* the position of the block's body
LockedBody(p) ==
    CASE p = "log_acquire" -> "log_append"
      [] p = "seen_acquire" -> "seen_check"
      [] p = "append_acquire" -> "append"
      [] p = "success_acquire" -> "success_count"
      [] p = "error_acquire" -> "error_count"
      [] p = "poll_acquire" -> "set_last_poll"

AcquirePositions ==
    {"log_acquire", "seen_acquire", "append_acquire", "success_acquire", "error_acquire",
     "poll_acquire"}

\* mutant: the lock excludes nobody
AlwaysAcquire(l) == TRUE

\* threading.Lock.acquire returns only when no thread holds the lock
CanAcquire(l) == l = None

\* mutant: the poller leaves a with block without giving the lock back
StillHeld == Some("poller")

\* the lock when a `with state.lock:` block is left (lines 146, 571, 590, 624,
\* 642, 652, 1132)
Released == None

\* `with state.lock:` entered by the poller (lines 145, 568, 589, 623, 641, 651)
PollerAcquire ==
    /\ pc \in AcquirePositions
    /\ CanAcquire(lock)
    /\ lock' = Some("poller")
    /\ pc' = LockedBody(pc)
    /\ waits' = 0
    /\ UNCHANGED <<calls, environ, enabled, clock, store, health, cycle, config, attempt, start_time, cycle_candidates,
                   src, entries, ei, tokens, new_candidates, candidate, log_entry, log_ret,
                   main, reader, history>>

\* _log_event, line 146, and the release of the lock
LogAppend ==
    /\ pc = "log_append"
    /\ activity_log' = DequeAppend(activity_log, log_entry, MAX_LOG_ENTRIES)
    /\ lock' = Released
    /\ pc' = log_ret
    /\ stats' = IF log_entry.level = "error" /\ Names(log_entry) # {}
                THEN [i \in SourceIds |->
                        IF i \in Names(log_entry)
                        THEN [stats[i] EXCEPT !.error_logs = @ + 1] ELSE stats[i]]
                ELSE IF log_entry.level = "debug" /\ Names(log_entry) # {}
                THEN [i \in SourceIds |->
                        IF i \in Names(log_entry)
                        THEN [stats[i] EXCEPT !.debug_logs = @ + 1] ELSE stats[i]]
                ELSE stats
    /\ cycle_logs' = CountLog(cycle_logs, log_entry.message.kind)
    /\ UNCHANGED <<calls, environ, enabled, waits, clock, candidates, seen_codes, last_poll, error_count,
                   success_count, health, cycle, config, attempt, start_time, cycle_candidates, src,
                   entries, ei, tokens, new_candidates, candidate, log_entry, log_ret,
                   main, reader, hist, seen_before, commits>>

\* mutant: the cycle ends without a summary
NoSummary == "poll_acquire"

\* where the poller continues when the for loop is exhausted (line 644)
AfterLastSource == "summary"

\* mutant: every source is passed over
AlwaysSkipped(flag) == TRUE

\* mutant: a disabled source is polled like any other
NeverSkipped(flag) == FALSE

\* line 612: `if not source.enabled`
Skipped(flag) == ~flag

\* lines 611-613: the next source of the for loop, or the end of the loop
ForSource ==
    /\ pc = "for_source"
    /\ IF src > Len(SOURCES) THEN pc' = AfterLastSource /\ src' = src
       ELSE IF Skipped(enabled[src]) THEN pc' = pc /\ src' = src + 1
       ELSE FetchesBegun < MaxFetches /\ pc' = "fetch" /\ src' = src
    /\ UNCHANGED <<calls, environ, enabled, waits, clock, lock, store, health, cycle, config, attempt, start_time,
                   cycle_candidates, entries, ei, tokens, new_candidates, candidate,
                   log_entry, log_ret, main, reader, history>>

\* the time one HTTP request takes, in seconds
RequestTime == 1

\* line 616: entries = source.fetcher(config), up to the end of one request of
\* _make_request (lines 193-204): the fetcher turns a response into entries;
\* a failed request is followed by a wait and another request, and the third
\* failure is raised to the fetcher
FetchFrom(served) ==
    /\ pc = "fetch"
    /\ \E response \in IF served THEN ServedResponses(src, attempt) ELSE Responses(src, attempt) :
          LET last == attempt = max_retries - 1
              result == IF response.ok
                        THEN Fetcher(SOURCES[src], response.body, config[1].max_posts)
                        ELSE FetcherFailed(SOURCES[src])
          IN IF ~response.ok /\ ~last
             THEN /\ pc' = "backoff"
                  /\ stats' = [stats EXCEPT ![src].called = 1]
                  /\ UNCHANGED <<attempt, entries, ei, tokens, new_candidates>>
             ELSE /\ stats' = [stats EXCEPT ![src].called = 1,
                                            ![src].net_failed = ~response.ok,
                                            ![src].malformed = response.malformed,
                                            ![src].returned = result.entries]
                  /\ attempt' = 0
                  /\ IF result.raised
                     THEN /\ pc' = "except"
                          /\ UNCHANGED <<entries, ei, tokens, new_candidates>>
                     ELSE /\ pc' = "process"
                          /\ entries' = result.entries
                          /\ ei' = 0
                          /\ tokens' = <<>>
                          /\ new_candidates' = <<>>
    /\ clock' = clock + RequestTime
    /\ UNCHANGED <<calls, environ, enabled, waits, lock, store, health, cycle, config, start_time, cycle_candidates,
                   src, candidate, log_entry, log_ret, main, reader, hist, seen_before, cycle_logs, commits>>

\* line 205: time.sleep(2 ** attempt), and the next turn of the loop of line 191
RequestBackoff ==
    /\ pc = "backoff"
    /\ clock' = clock + Backoff(attempt)
    /\ attempt' = attempt + 1
    /\ pc' = "fetch"
    /\ UNCHANGED <<calls, environ, enabled, waits, lock, store, health, cycle, config, start_time, cycle_candidates,
                   src, entries, ei, tokens, new_candidates, candidate, log_entry, log_ret,
                   main, reader, history>>

Fetch == FetchFrom(FALSE)

\* line 616 when Reddit answers with one of RedditPayloads
FetchServed == FetchFrom(TRUE)

(***************************************************************************)
(* _process_entries (lines 557-598), called at line 617.                   *)
(***************************************************************************)
\* lines 561-567: the next token of the entry, the next entry, or the return
\* to _poll_sources (line 618)
ProcessNext ==
    /\ pc = "process"
    /\ IF tokens # <<>>
       THEN /\ pc' = "seen_acquire"
            /\ UNCHANGED <<ei, tokens, cycle_candidates>>
       ELSE IF ei < Len(entries)
       THEN /\ ei' = ei + 1
            /\ tokens' = _extract_tokens(Combined(entries[ei + 1]))
            /\ pc' = "process"
            /\ UNCHANGED cycle_candidates
       ELSE /\ cycle_candidates' = cycle_candidates \o new_candidates
            /\ pc' = "set_last_success"
            /\ UNCHANGED <<ei, tokens>>
    /\ UNCHANGED <<calls, environ, enabled, waits, clock, lock, store, health, cycle, config, attempt, start_time, src,
                   entries, new_candidates, candidate, log_entry, log_ret, main, reader,
                   history>>

\* lines 569-571, and the release of the lock
SeenCheck ==
    /\ pc = "seen_check"
    /\ lock' = Released
    /\ IF IsSeen(Head(tokens), seen_codes)
       THEN /\ tokens' = Tail(tokens)
            /\ pc' = "process"
            /\ UNCHANGED seen_codes
       ELSE /\ seen_codes' = SeenAdd(seen_codes, Head(tokens))
            /\ pc' = "build"
            /\ UNCHANGED tokens
    /\ UNCHANGED <<calls, environ, enabled, waits, clock, candidates, last_poll, activity_log, error_count,
                   success_count, health, cycle, config, attempt, start_time, cycle_candidates, src,
                   entries, ei, new_candidates, candidate, log_entry, log_ret, main, reader,
                   history>>

\* lines 573-587: the Candidate is built outside the lock; a title that is
\* a number raises at line 576, into the except block of _poll_sources
BuildCandidate ==
    /\ pc = "build"
    /\ IF DisplayTitleRaises(entries[ei].title, SOURCES[src].name)
       THEN /\ pc' = "except"
            /\ UNCHANGED candidate
       ELSE /\ candidate' = [code |-> Head(tokens), url |-> entries[ei].url,
                             source |-> SOURCES[src].name, discovered_at |-> clock]
            /\ pc' = "append_acquire"
    /\ UNCHANGED <<calls, environ, enabled, waits, clock, lock, store, health, cycle, config, attempt, start_time,
                   cycle_candidates, src, entries, ei, tokens, new_candidates, log_entry,
                   log_ret, main, reader, history>>

\* line 590 and the release of the lock, then lines 592-596
AppendCandidate ==
    /\ pc = "append"
    /\ candidates' = DequeAppend(candidates, candidate, MAX_CANDIDATES)
    /\ hist' = Append(hist, candidate)
    /\ lock' = Released
    /\ new_candidates' = Append(new_candidates, candidate)
    /\ tokens' = Tail(tokens)
    /\ CallLog("success", Message("new", SOURCES[src].name, candidate.code, 0, 0), "process")
    /\ UNCHANGED <<calls, environ, enabled, waits, clock, seen_codes, last_poll, activity_log, error_count,
                   success_count, health, cycle, config, attempt, start_time, cycle_candidates, src,
                   entries, ei, candidate, main, reader, stats, seen_before, cycle_logs, commits>>

(***************************************************************************)
(* _poll_sources, the success path (lines 620-632).                        *)
(***************************************************************************)
\* line 620, outside the lock
SetLastSuccess ==
    /\ pc = "set_last_success"
    /\ last_success' = [last_success EXCEPT ![src] = Some(clock)]
    /\ pc' = "clear_last_error"
    /\ UNCHANGED <<calls, environ, enabled, waits, clock, lock, store, last_error, cycle, config, attempt, start_time,
                   cycle_candidates, src, entries, ei, tokens, new_candidates, candidate,
                   log_entry, log_ret, main, reader, history>>

\* line 621, outside the lock
ClearLastError ==
    /\ pc = "clear_last_error"
    /\ last_error' = [last_error EXCEPT ![src] = None]
    /\ pc' = "success_acquire"
    /\ UNCHANGED <<calls, environ, enabled, waits, clock, lock, store, last_success, cycle, config, attempt, start_time,
                   cycle_candidates, src, entries, ei, tokens, new_candidates, candidate,
                   log_entry, log_ret, main, reader, history>>

\* line 624 and the release of the lock, then lines 626-629
SuccessCount ==
    /\ pc = "success_count"
    /\ success_count' = success_count + 1
    /\ lock' = Released
    /\ stats' = [stats EXCEPT ![src].success_incs = @ + 1]
    /\ commits' = commits \cup {[HealthNow EXCEPT !.success_count = @ + 1]}
    /\ CallLog("debug",
               Message("outcome", SOURCES[src].name, <<>>, Len(entries), Len(new_candidates)),
               "rate_limit")
    /\ UNCHANGED <<calls, environ, enabled, waits, clock, candidates, seen_codes, last_poll, activity_log,
                   error_count, health, cycle, config, attempt, start_time, cycle_candidates, src,
                   entries, ei, tokens, new_candidates, candidate, main, reader, hist,
                   seen_before, cycle_logs>>

\* lines 631-632, and the end of the for loop's body
RateLimit ==
    /\ pc = "rate_limit"
    /\ clock' = IF SOURCES[src].rate_limit_delay > 0
                THEN clock + SOURCES[src].rate_limit_delay ELSE clock
    /\ src' = src + 1
    /\ pc' = "for_source"
    /\ UNCHANGED <<calls, environ, enabled, waits, lock, store, health, cycle, config, attempt, start_time, cycle_candidates,
                   entries, ei, tokens, new_candidates, candidate, log_entry, log_ret, main,
                   reader, history>>

(***************************************************************************)
(* _poll_sources, the except block (lines 634-642).                        *)
(***************************************************************************)
\* lines 635-637
ExceptHandler ==
    /\ pc = "except"
    /\ stats' = [stats EXCEPT ![src].raised = TRUE]
    /\ CallLog(ExceptLogLevel, Message("failure", SOURCES[src].name, <<>>, 0, 0),
               "set_last_error")
    /\ UNCHANGED <<calls, environ, enabled, waits, clock, lock, store, health, cycle, config, attempt, start_time,
                   cycle_candidates, src, entries, ei, tokens, new_candidates, candidate,
                   main, reader, hist, seen_before, cycle_logs, commits>>

\* line 639, outside the lock
SetLastError ==
    /\ pc = "set_last_error"
    /\ last_error' = [last_error EXCEPT ![src] = Some(clock)]
    /\ pc' = "error_acquire"
    /\ UNCHANGED <<calls, environ, enabled, waits, clock, lock, store, last_success, cycle, config, attempt, start_time,
                   cycle_candidates, src, entries, ei, tokens, new_candidates, candidate,
                   log_entry, log_ret, main, reader, history>>

\* line 642 and the release of the lock, then the next source
ErrorCount ==
    /\ pc = "error_count"
    /\ error_count' = error_count + 1
    /\ lock' = Released
    /\ stats' = [stats EXCEPT ![src].error_incs = @ + 1]
    /\ commits' = commits \cup {[HealthNow EXCEPT !.error_count = @ + 1]}
    /\ src' = NextAfterFailure(src)
    /\ pc' = "for_source"
    /\ UNCHANGED <<calls, environ, enabled, waits, clock, candidates, seen_codes, last_poll, activity_log,
                   success_count, health, cycle, config, attempt, start_time, cycle_candidates,
                   entries, ei, tokens, new_candidates, candidate, log_entry, log_ret, main,
                   reader, hist, seen_before, cycle_logs>>

(***************************************************************************)
(* _poll_sources, the end of the cycle (lines 644-656).                    *)
(***************************************************************************)
\* lines 646-649
Summary ==
    /\ pc = "summary"
    /\ IF cycle_candidates # <<>>
       THEN CallLog("success", Message("discovered", "", <<>>, Len(cycle_candidates), 0),
                    "poll_acquire")
       ELSE CallLog("info", Message("none", "", <<>>, 0, 0), "poll_acquire")
    /\ UNCHANGED <<calls, environ, enabled, waits, clock, lock, store, health, cycle, config, attempt, start_time,
                   cycle_candidates, src, entries, ei, tokens, new_candidates, candidate,
                   main, reader, history>>

\* line 652 and the release of the lock
SetLastPoll ==
    /\ pc = "set_last_poll"
    /\ last_poll' = Some(clock)
    /\ lock' = Released
    /\ pc' = "sleep"
    /\ UNCHANGED <<calls, environ, enabled, waits, clock, candidates, seen_codes, activity_log, error_count,
                   success_count, health, cycle, config, attempt, start_time, cycle_candidates, src,
                   entries, ei, tokens, new_candidates, candidate, log_entry, log_ret, main,
                   reader, history>>

\* mutant: the sleep has no floor
NoFloor(poll_interval, elapsed) == poll_interval - elapsed

\* line 655
SleepFor(poll_interval, elapsed) == Max(poll_interval - elapsed, 5)

\* lines 654-656
Sleep ==
    /\ pc = "sleep"
    /\ clock' = clock + SleepFor(config[1].poll_interval, clock - start_time)
    /\ pc' = "idle"
    /\ UNCHANGED <<calls, environ, enabled, waits, lock, store, health, cycle, config, attempt, start_time, cycle_candidates,
                   src, entries, ei, tokens, new_candidates, candidate, log_entry, log_ret,
                   main, reader, history>>

(***************************************************************************)
(* The main thread: _start_background_thread (lines 659-665), after        *)
(* thread.start().                                                         *)
(***************************************************************************)
\* line 665: _log_event("System initialized", "info"), line 144: the entry
\* is built, with the time of this moment, before the lock is asked for
MainLogEvent ==
    /\ main_pc = "log_event"
    /\ cycle <= MainCycles
    /\ main_entry' = LogEntry(clock, "info", Message("init", "", <<>>, 0, 0))
    /\ main_pc' = "log_acquire"
    /\ UNCHANGED <<calls, environ, enabled, waits, clock, lock, store, health, poller, reader, history>>

\* line 145: the lock is taken
MainLogAcquire ==
    /\ main_pc = "log_acquire"
    /\ cycle <= MainCycles
    /\ CanAcquire(lock)
    /\ lock' = Some("main")
    /\ main_pc' = "log_append"
    /\ UNCHANGED <<calls, environ, enabled, waits, clock, store, health, poller, main_entry, reader, history>>

\* line 146 and the release of the lock
MainLogAppend ==
    /\ main_pc = "log_append"
    /\ activity_log' = DequeAppend(activity_log, main_entry, MAX_LOG_ENTRIES)
    /\ lock' = Released
    /\ main_pc' = "done"
    /\ main_entry' = NoEntry
    /\ UNCHANGED <<calls, environ, enabled, waits, clock, candidates, seen_codes, last_poll, error_count,
                   success_count, health, poller, reader, history>>

(***************************************************************************)
(* A reader: codes_json (lines 1112-1141).                                 *)
(***************************************************************************)
\* requests are served once the module has been imported, that is, after
\* _start_background_thread() of line 1145 has returned (app.run is line 1156)
Serving == main_pc = "done"

\* line 1116 when _get_config raises: the request fails before the lock
CodesJsonRaises ==
    /\ rpc = "idle"
    /\ Serving
    /\ _get_config(environ) = None
    /\ rpc' = "raised"
    /\ UNCHANGED <<calls, environ, enabled, waits, clock, lock, store, health, poller, main, snap, ri, rs, history>>

\* lines 1116-1117
CodesJsonAcquire ==
    /\ rpc = "idle"
    /\ Serving
    /\ _get_config(environ) # None
    /\ CanAcquire(lock)
    /\ lock' = Some("reader")
    /\ rpc' = "copy"
    /\ UNCHANGED <<calls, environ, enabled, waits, clock, store, health, poller, main, snap, ri, rs, history>>

\* mutant: the deque is reversed in place, as by deque.reverse()
ReversedInPlace(q) == Reverse(q)

\* the deque after reversed(deque) has been iterated (lines 1118, 1119): the
\* iterator leaves it as it is
AfterReversed(q) == q

\* mutant: the snapshot lists a buffer in insertion order
InsertionOrder(s) == s

\* list(reversed(deque)) (lines 1118, 1119)
Reversed(s) == Reverse(s)

\* the first source after source i that the poller polls (line 612), or
\* Len(SOURCES) + 1: only a polled source has its fields written (lines 620,
\* 621, 639)
NextPolled(i) ==
    LET later == {j \in SourceIds : j > i /\ enabled[j]}
    IN IF later = {} THEN Len(SOURCES) + 1
       ELSE CHOOSE j \in later : \A k \in later : j <= k

\* lines 1131-1139 for sources first..last, none of which is polled: nothing
\* writes their fields, so these reads are not steps of their own
Unpolled(first, last) ==
    [k \in 1..(last - first + 1) |->
        [name |-> SOURCES[first + k - 1].name, enabled |-> enabled[first + k - 1],
         last_success |-> last_success[first + k - 1],
         last_error |-> last_error[first + k - 1]]]

\* lines 1118-1130: the fields the lock protects, and lines 1131-1139 up to
\* the first polled source
CodesJsonCopy ==
    /\ rpc = "copy"
    /\ snap' = Some([poll_interval_seconds |-> _get_config(environ)[1].poll_interval,
                     max_posts |-> _get_config(environ)[1].max_posts,
                     last_poll |-> last_poll,
                     total_candidates |-> Len(candidates),
                     unique_codes |-> Cardinality(seen_codes),
                     success_count |-> success_count,
                     error_count |-> error_count,
                     candidates |-> Reversed(candidates),
                     activity_log |-> Reversed(activity_log),
                     sources |-> Unpolled(1, NextPolled(0) - 1)])
    /\ candidates' = AfterReversed(candidates)
    /\ activity_log' = AfterReversed(activity_log)
    /\ IF NextPolled(0) <= Len(SOURCES)
       THEN ri' = NextPolled(0) /\ rpc' = "read_last_success"
       ELSE ri' = 1 /\ rpc' = "release"
    /\ UNCHANGED <<calls, environ, enabled, waits, clock, lock, seen_codes, last_poll, error_count,
                   success_count, health, poller, main, rs, history>>

\* line 1135: source.last_success is read
CodesJsonReadSuccess ==
    /\ rpc = "read_last_success"
    /\ rs' = last_success[ri]
    /\ rpc' = "read_last_error"
    /\ UNCHANGED <<calls, environ, enabled, waits, clock, lock, store, health, poller, main, snap, ri, history>>

\* line 1136: source.last_error is read, and lines 1131-1139 up to the next
\* polled source
CodesJsonReadError ==
    /\ rpc = "read_last_error"
    /\ snap' = Some([snap[1] EXCEPT !.sources =
                        Append(@, [name |-> SOURCES[ri].name, enabled |-> enabled[ri],
                                   last_success |-> rs, last_error |-> last_error[ri]])
                        \o Unpolled(ri + 1, NextPolled(ri) - 1)])
    /\ rs' = None
    /\ IF NextPolled(ri) <= Len(SOURCES)
       THEN ri' = NextPolled(ri) /\ rpc' = "read_last_success"
       ELSE ri' = 1 /\ rpc' = "release"
    /\ UNCHANGED <<calls, environ, enabled, waits, clock, lock, store, health, poller, main, history>>

\* the end of the with block and line 1141: the snapshot is returned
CodesJsonReturn ==
    /\ rpc \in {"release", "raised"}
    /\ lock' = IF rpc = "release" THEN Released ELSE lock
    /\ snap' = NoSnapshot
    /\ rpc' = "idle"
    /\ UNCHANGED <<calls, environ, enabled, waits, clock, store, health, poller, main, ri, rs, history>>

OtherSteps ==
    \/ CycleStart
    \/ RequestBackoff
    \/ PollerAcquire
    \/ LogAppend
    \/ ForSource
    \/ ProcessNext
    \/ SeenCheck
    \/ BuildCandidate
    \/ AppendCandidate
    \/ SetLastSuccess
    \/ ClearLastError
    \/ SuccessCount
    \/ RateLimit
    \/ ExceptHandler
    \/ SetLastError
    \/ ErrorCount
    \/ Summary
    \/ SetLastPoll
    \/ Sleep
    \/ MainLogEvent
    \/ MainLogAcquire
    \/ MainLogAppend
    \/ CodesJsonRaises
    \/ CodesJsonAcquire
    \/ CodesJsonCopy
    \/ CodesJsonReadSuccess
    \/ CodesJsonReadError
    \/ CodesJsonReturn

Next == Fetch \/ OtherSteps

Spec == Init /\ [][Next]_vars

NextServed == FetchServed \/ OtherSteps

\* the same program when Reddit answers with payloads of several shapes
SpecServed == Init /\ [][NextServed]_vars

(***************************************************************************)
(* _make_request (lines 175-206), one call run on its own.                 *)
(***************************************************************************)
\* what one requests.get can end in: a response with a status code, or an
\* exception of requests.exceptions
AttemptOutcomes ==
    { [kind |-> "response", status |-> 200],
      [kind |-> "response", status |-> 404],
      [kind |-> "response", status |-> 503],
      [kind |-> "Timeout", status |-> 0],
      [kind |-> "ConnectionError", status |-> 0] }

\* line 199: response.raise_for_status() raises HTTPError for 4xx and 5xx
RaisesForStatus(status) == status >= 400 /\ status < 600

\* lines 192-200 raise a RequestException
AttemptFails(outcome) == outcome.kind # "response" \/ RaisesForStatus(outcome.status)

InitRequest ==
    /\ environ = [POLL_INTERVAL_SECONDS |-> None, MAX_POSTS |-> None]
    /\ enabled = [i \in SourceIds |-> SOURCES[i].enabled]
    /\ InitProgram
    /\ request = [pc |-> "try", attempt |-> 0, outcomes |-> <<>>, sleeps |-> <<>>]
    /\ extraction = NoExtraction
    /\ scoring = NoScoring
    /\ snippet = NoSnippet
    /\ producers = NoProducers
    /\ readers = NoReaders

\* lines 191-200: one pass through the try block
RequestAttempt ==
    /\ request.pc = "try"
    /\ \E outcome \in AttemptOutcomes :
          request' = [request EXCEPT
                        !.outcomes = Append(@, outcome),
                        !.pc = IF AttemptFails(outcome) THEN "except" ELSE "returned"]
    /\ UNCHANGED <<extraction, scoring, snippet, producers, readers, environ, enabled, waits, clock, lock, store, health, poller, main,
                   reader, history>>

\* lines 201-205, and line 206 when the for loop is exhausted
RequestExcept ==
    /\ request.pc = "except"
    /\ request' = IF request.attempt = max_retries - 1
                  THEN [request EXCEPT !.pc = "raised"]
                  ELSE [request EXCEPT
                          !.sleeps = Append(@, Backoff(request.attempt)),
                          !.attempt = @ + 1,
                          !.pc = IF request.attempt + 1 < max_retries
                                 THEN "try" ELSE "unreachable"]
    /\ UNCHANGED <<extraction, scoring, snippet, producers, readers, environ, enabled, waits, clock, lock, store, health, poller, main,
                   reader, history>>

NextRequest == RequestAttempt \/ RequestExcept

SpecRequest == InitRequest /\ [][NextRequest]_vars

(***************************************************************************)
(* _extract_tokens (lines 514-525), one call run on its own.               *)
(***************************************************************************)
\* words a text is put together from: tokens in lower, upper and mixed case,
\* a word without a digit, runs of 4, 12 and 13 characters, words with an
\* excluded substring, a number, and words with characters beyond ASCII: one
\* that str.upper() turns into two, a letter and a digit that are word
\* characters but not token characters, and one that becomes an ASCII letter
Words ==
    { <<"a","b","1","2","c">>,
      <<"A","B","1","2","C">>,
      <<"A","B","C","D","E">>,
      <<"A","B","1","2">>,
      <<"A","1","B","2","C","3","D","4","E","5","F","6">>,
      <<"A","1","B","2","C","3","D","4","E","5","F","6","G">>,
      <<"H","T","M","L","5","X">>,
      <<"1","X","M","L","2","3">>,
      <<"1","2","3","4","5">>,
      <<"Z","9","z","9","Z">>,
      <<"s","t","r","a","ß","e","1">>,
      <<"é","a","b","1","2","c">>,
      <<LongS,"o","r","a","1","2">>,
      <<"A","B","1","2","C","²">> }

\* what stands between two words: a space, an underscore (a word character),
\* a hyphen, or nothing
Separators == { <<" ">>, <<"_">>, <<"-">>, <<>> }

\* the texts _extract_tokens is called with: two words and a separator,
\* optionally followed by a repetition of the token AB12C
Texts ==
    { w1 \o sep \o w2 \o tail :
        w1 \in Words, sep \in Separators, w2 \in Words,
        tail \in {<<>>, <<" ","A","B","1","2","C">>} }

InitExtraction ==
    /\ environ = [POLL_INTERVAL_SECONDS |-> None, MAX_POSTS |-> None]
    /\ enabled = [i \in SourceIds |-> SOURCES[i].enabled]
    /\ InitProgram
    /\ request = NoRequest
    /\ scoring = NoScoring
    /\ snippet = NoSnippet
    /\ producers = NoProducers
    /\ readers = NoReaders
    /\ \E text \in Texts : extraction = [pc |-> "call", text |-> text, result |-> <<>>]

\* the call returns
ExtractTokens ==
    /\ extraction.pc = "call"
    /\ extraction' = [extraction EXCEPT !.pc = "returned",
                                        !.result = _extract_tokens(extraction.text)]
    /\ UNCHANGED <<request, scoring, snippet, producers, readers, environ, enabled, waits, clock, lock, store, health, poller, main,
                   reader, history>>

NextExtraction == ExtractTokens

(***************************************************************************)
(* _calculate_confidence, one call run on its own.                         *)
(***************************************************************************)
\* words a scored text is put together from: four invite keywords, the brand
\* and two noise words, in mixed case
ScoredWords ==
    << <<"I","n","v","i","t","e">>,
       <<"c","o","d","e">>,
       <<"B","E","T","A">>,
       <<"a","c","c","e","s","s">>,
       <<"S","o","r","a">>,
       <<"E","r","r","o","r">>,
       <<"d","e","b","u","g">> >>

\* the words picked, in order, each followed by a space
RECURSIVE Sentence(_, _)
Sentence(picked, k) ==
    IF k > Len(ScoredWords) THEN <<>>
    ELSE (IF k \in picked THEN ScoredWords[k] \o <<" ">> ELSE <<>>) \o Sentence(picked, k + 1)

\* the token every scored text ends with
ScoredToken == <<"A","B","1","2","C">>

\* the texts _calculate_confidence is called with
ScoredTexts == {Sentence(picked, 1) \o ScoredToken : picked \in SUBSET DOMAIN ScoredWords}

InitScoring ==
    /\ environ = [POLL_INTERVAL_SECONDS |-> None, MAX_POSTS |-> None]
    /\ enabled = [i \in SourceIds |-> SOURCES[i].enabled]
    /\ InitProgram
    /\ request = NoRequest
    /\ extraction = NoExtraction
    /\ snippet = NoSnippet
    /\ producers = NoProducers
    /\ readers = NoReaders
    /\ \E text \in ScoredTexts :
          scoring = [pc |-> "call", text |-> text, token |-> ScoredToken, result |-> 0]

\* the call returns
CalculateConfidence ==
    /\ scoring.pc = "call"
    /\ scoring' = [scoring EXCEPT !.pc = "returned",
                                  !.result = _calculate_confidence(scoring.text, scoring.token)]
    /\ UNCHANGED <<request, extraction, snippet, producers, readers, environ, enabled, waits, clock, lock, store, health,
                   poller, main, reader, history>>

NextScoring == CalculateConfidence

(***************************************************************************)
(* _build_example_snippet, one call run on its own.                        *)
(***************************************************************************)
\* a sentence of more than 60 characters with markup in it
Filler ==
    <<"l","o","r","e","m"," ","<","i",">","i","p","s","u","m","<","/","i",">"," ","&"," ","d","o","l","o","r"," ","s","i","t"," ","a","m","e","t",","," ","c","o","n","s","e","c","t","e","t","u","r"," ","'","a","d","i","p","i","s","c","i","n","g","'"," ","e","l","i","t",";"," ">>

\* titles: empty, blank, with the token in another case, with markup around
\* the token, without the token, with more than 60 characters on both sides
\* of the token, with a literal mark tag, and with two words whose upper
\* case is a token: one that does not occur in the title in any case
\* (STRASSE1) and one that re.IGNORECASE finds (SORA12)
SnippetTitles ==
    { <<>>,
      <<" "," "," ">>,
      <<"C","o","d","e",":"," ","a","b","1","2","c"," ","<","3"," ","\"","f","r","e","e","\"">>,
      <<"<","b",">","A","B","1","2","C","<","/","b",">"," ","&"," ","a","b","1","2","C">>,
      <<"n","o","t","h","i","n","g"," ",">"," ","h","e","r","e">>,
      <<"<","m","a","r","k",">","z","9","z","9","z","<","/","m","a","r","k",">">>,
      Filler \o <<"A","b","1","2","c">> \o Filler,
      <<"s","t","r","a","ß","e","1"," ","<",LongS,"o","r","a","1","2",">">> }

\* bodies: empty, with newlines, with markup only, longer than 200
\* characters, and with the token before a long tail
SnippetBodies ==
    { <<>>,
      <<"s","e","e","\n","A","B","1","2","C","\n">>,
      <<"a"," ","<"," ","b"," ","&","&"," ","c"," ",">"," ","d">>,
      Filler \o Filler \o Filler \o Filler,
      <<" ","a","b","1","2","c">> \o Filler }

SnippetTokens ==
    { <<"A","B","1","2","C">>, <<"Z","9","Z","9","Z">>,
      <<"S","T","R","A","S","S","E","1">>, <<"S","O","R","A","1","2">> }

InitSnippet ==
    /\ environ = [POLL_INTERVAL_SECONDS |-> None, MAX_POSTS |-> None]
    /\ enabled = [i \in SourceIds |-> SOURCES[i].enabled]
    /\ InitProgram
    /\ request = NoRequest
    /\ extraction = NoExtraction
    /\ scoring = NoScoring
    /\ producers = NoProducers
    /\ readers = NoReaders
    /\ \E title \in SnippetTitles, body \in SnippetBodies, token \in SnippetTokens :
          snippet = [pc |-> "call", title |-> title, body |-> body, token |-> token,
                     result |-> <<>>]

\* the call returns
BuildExampleSnippet ==
    /\ snippet.pc = "call"
    /\ snippet' = [snippet EXCEPT
                     !.pc = "returned",
                     !.result = _build_example_snippet(snippet.title, snippet.body,
                                                       snippet.token)]
    /\ UNCHANGED <<request, extraction, scoring, producers, readers, environ, enabled, waits, clock, lock, store, health,
                   poller, main, reader, history>>

NextSnippet == BuildExampleSnippet

(***************************************************************************)
(* _process_entries (lines 557-598) run by two threads side by side on the *)
(* shared state.                                                           *)
(***************************************************************************)
ProducerIds == DOMAIN producers

\* the name under which producer p holds the lock
ProducerName(p) == IF p = 1 THEN "producer1" ELSE "producer2"

\* the arguments of the two calls: records that share tokens
ProducerEntries ==
    { <<<<RecA, RecB>>, <<RecA>>>>,
      <<<<RecA, RecB>>, <<RecC>>>>,
      <<<<RecC, RecD>>, <<RecA>>>> }

InitProducers ==
    /\ environ = [POLL_INTERVAL_SECONDS |-> None, MAX_POSTS |-> None]
    /\ enabled = [i \in SourceIds |-> SOURCES[i].enabled]
    /\ InitProgram
    /\ request = NoRequest
    /\ extraction = NoExtraction
    /\ scoring = NoScoring
    /\ snippet = NoSnippet
    /\ readers = NoReaders
    /\ \E args \in ProducerEntries :
          producers = [p \in DOMAIN args |->
                         [pc |-> "process", entries |-> args[p], ei |-> 0, tokens |-> <<>>,
                          candidate |-> NoCandidate, passed |-> {}]]

\* a step of producer p that touches nothing but its own position
ProducerLocal(p, next) ==
    /\ producers' = [producers EXCEPT ![p] = next]
    /\ UNCHANGED <<request, extraction, scoring, snippet, readers, environ, enabled, waits, clock, lock,
                   store, health, poller, main, reader, history>>

\* lines 561-567, 598: the next token, the next entry, or the return
ProducerNext(p) ==
    LET self == producers[p] IN
    /\ self.pc = "process"
    /\ ProducerLocal(p,
          IF self.tokens # <<>> THEN [self EXCEPT !.pc = "seen_acquire"]
          ELSE IF self.ei < Len(self.entries)
          THEN [self EXCEPT !.ei = @ + 1,
                            !.tokens = _extract_tokens(Combined(self.entries[self.ei + 1]))]
          ELSE [self EXCEPT !.pc = "returned"])

\* `with state.lock:` (lines 145, 568, 589)
ProducerAcquire(p) ==
    LET self == producers[p] IN
    /\ self.pc \in {"seen_acquire", "append_acquire", "log_acquire"}
    /\ CanAcquire(lock)
    /\ lock' = Some(ProducerName(p))
    /\ producers' = [producers EXCEPT ![p].pc = IF self.pc = "seen_acquire" THEN "seen_test"
                                                ELSE LockedBody(self.pc)]
    /\ UNCHANGED <<request, extraction, scoring, snippet, readers, environ, enabled, waits, clock, store,
                   health, poller, main, reader, history>>

\* lines 569-570: the check, and the release of the lock when the token is
\* known
ProducerSeenTest(p) ==
    LET self == producers[p] IN
    /\ self.pc = "seen_test"
    /\ IF IsSeen(Head(self.tokens), seen_codes)
       THEN /\ lock' = Released
            /\ producers' = [producers EXCEPT ![p].pc = "process", ![p].tokens = Tail(@)]
       ELSE /\ lock' = lock
            /\ producers' = [producers EXCEPT ![p].pc = "seen_add"]
    /\ UNCHANGED <<request, extraction, scoring, snippet, readers, environ, enabled, waits, clock, store,
                   health, poller, main, reader, history>>

\* line 571, and the release of the lock
ProducerSeenAdd(p) ==
    LET self == producers[p] IN
    /\ self.pc = "seen_add"
    /\ seen_codes' = SeenAdd(seen_codes, Head(self.tokens))
    /\ lock' = Released
    /\ producers' = [producers EXCEPT ![p].pc = "build",
                                      ![p].passed = @ \cup {Head(self.tokens)}]
    /\ UNCHANGED <<request, extraction, scoring, snippet, readers, environ, enabled, waits, clock, candidates,
                   last_poll, activity_log, error_count, success_count, health, poller, main,
                   reader, history>>

\* lines 573-587; a title that is a number raises at line 576
ProducerBuild(p) ==
    LET self == producers[p] IN
    /\ self.pc = "build"
    /\ ProducerLocal(p,
          IF DisplayTitleRaises(self.entries[self.ei].title, SOURCES[p].name)
          THEN [self EXCEPT !.pc = "raised"]
          ELSE [self EXCEPT !.pc = "append_acquire",
                            !.candidate = [code |-> Head(self.tokens),
                                           url |-> self.entries[self.ei].url,
                                           source |-> SOURCES[p].name,
                                           discovered_at |-> clock]])

\* line 590 and the release of the lock, then lines 592-596
ProducerAppend(p) ==
    LET self == producers[p] IN
    /\ self.pc = "append"
    /\ candidates' = DequeAppend(candidates, self.candidate, MAX_CANDIDATES)
    /\ hist' = Append(hist, self.candidate)
    /\ lock' = Released
    /\ producers' = [producers EXCEPT ![p].pc = "log_acquire", ![p].tokens = Tail(@)]
    /\ UNCHANGED <<request, extraction, scoring, snippet, readers, environ, enabled, waits, clock, seen_codes,
                   last_poll, activity_log, error_count, success_count, health, poller, main,
                   reader, stats, seen_before, cycle_logs, commits>>

\* _log_event, line 146, and the release of the lock
ProducerLogAppend(p) ==
    LET self == producers[p] IN
    /\ self.pc = "log_append"
    /\ activity_log' = DequeAppend(activity_log,
                                   LogEntry(clock, "success",
                                            Message("new", SOURCES[p].name, self.candidate.code, 0, 0)),
                                   MAX_LOG_ENTRIES)
    /\ lock' = Released
    /\ producers' = [producers EXCEPT ![p].pc = "process"]
    /\ UNCHANGED <<request, extraction, scoring, snippet, readers, environ, enabled, waits, clock, candidates,
                   seen_codes, last_poll, error_count, success_count, health, poller, main,
                   reader, history>>

NextProducers ==
    \E p \in ProducerIds :
        \/ ProducerNext(p)
        \/ ProducerAcquire(p)
        \/ ProducerSeenTest(p)
        \/ ProducerSeenAdd(p)
        \/ ProducerBuild(p)
        \/ ProducerAppend(p)
        \/ ProducerLogAppend(p)

SpecProducers == InitProducers /\ [][NextProducers]_vars

(***************************************************************************)
(* The use of state.lock by all threads, under fair scheduling: the poller *)
(* (_poll_sources, _process_entries, _log_event), the main thread (line    *)
(* 665) and two request threads in codes_json.  Only the control flow is   *)
(* kept: what a fetch returns, whether a token is new and whether a record *)
(* raises are choices.                                                     *)
(***************************************************************************)
ReaderIds == {"reader1", "reader2"}

InitLocking ==
    /\ environ = [POLL_INTERVAL_SECONDS |-> None, MAX_POSTS |-> None]
    /\ enabled = [i \in SourceIds |-> SOURCES[i].enabled]
    /\ InitProgram
    /\ request = NoRequest
    /\ extraction = NoExtraction
    /\ scoring = NoScoring
    /\ snippet = NoSnippet
    /\ producers = NoProducers
    /\ readers = [r \in ReaderIds |-> "idle"]

\* a step of the poller to position p, with the lock l, at source s, in a
\* _log_event that returns to r; a poller that arrives at a with statement
\* while a reader holds the lock has that hold to wait through
LockingStep(p, l, s, r) ==
    /\ pc' = p
    /\ lock' = l
    /\ src' = s
    /\ log_ret' = r
    /\ waits' = IF p \in AcquirePositions /\ l \in {Some(rd) : rd \in ReaderIds} THEN 1 ELSE 0
    /\ UNCHANGED <<calls, environ, enabled, clock, store, health, cycle, config, attempt, start_time,
                   cycle_candidates, entries, ei, tokens, new_candidates, candidate,
                   log_entry, main, reader, history>>

\* lines 605-609: a cycle starts with a _log_event
LockingCycleStart ==
    /\ pc = "idle"
    /\ LockingStep("log_acquire", lock, 1, "for_source")

\* lines 611-613, and lines 644-649 when the loop is exhausted: the summary
\* _log_event, which returns to line 651
LockingForSource ==
    /\ pc = "for_source"
    /\ IF src > Len(SOURCES) THEN LockingStep("log_acquire", lock, src, "poll_acquire")
       ELSE IF Skipped(enabled[src]) THEN LockingStep(pc, lock, src + 1, log_ret)
       ELSE LockingStep("fetch", lock, src, log_ret)

\* line 616: one request of the fetcher (lines 191-203); a failed one is
\* followed by the wait of line 205 unless it was the last, and after the
\* last the fetcher returns or raises
LockingFetch ==
    /\ pc = "fetch"
    /\ \E outcome \in {"retry", "raised", "returned"} :
          /\ outcome = "retry" => attempt < max_retries - 1
          /\ pc' = (CASE outcome = "retry" -> "backoff"
                      [] outcome = "raised" -> "except"
                      [] outcome = "returned" -> "process")
          /\ attempt' = IF outcome = "retry" THEN attempt ELSE 0
    /\ UNCHANGED <<calls, environ, enabled, waits, clock, lock, store, health, cycle, config, src,
                   start_time, cycle_candidates, entries, ei, tokens, new_candidates,
                   candidate, log_entry, log_ret, main, reader, history>>

\* line 205: the wait is over, the next request follows
LockingBackoff ==
    /\ pc = "backoff"
    /\ attempt' = attempt + 1
    /\ pc' = "fetch"
    /\ UNCHANGED <<calls, environ, enabled, waits, clock, lock, store, health, cycle, config, src,
                   start_time, cycle_candidates, entries, ei, tokens, new_candidates,
                   candidate, log_entry, log_ret, main, reader, history>>

\* lines 561-567: another token to check, or lines 598 and 617-622
LockingProcess ==
    /\ pc = "process"
    /\ \E more \in BOOLEAN :
          LockingStep(IF more THEN "seen_acquire" ELSE "success_acquire", lock, src, log_ret)

\* lines 573-588: the Candidate is built, or line 573 raises
LockingBuild ==
    /\ pc = "build"
    /\ \E raised \in BOOLEAN :
          LockingStep(IF raised THEN "except" ELSE "append_acquire", lock, src, log_ret)

\* the body of a with block of the poller and the release of the lock:
\* line 146; lines 569-571; line 590 and the _log_event of 592-595; line 624
\* and the _log_event of 626-629; line 642; line 652
LockingBody ==
    /\ lock = Some("poller")
    /\ \/ pc = "log_append" /\ LockingStep(log_ret, Released, src, log_ret)
       \/ pc = "seen_check" /\ \E seen \in BOOLEAN :
             LockingStep(IF seen THEN "process" ELSE "build", Released, src, log_ret)
       \/ pc = "append" /\ LockingStep("log_acquire", Released, src, "process")
       \/ pc = "success_count" /\ LockingStep("log_acquire", Released, src, "rate_limit")
       \/ pc = "error_count" /\ LockingStep("for_source", Released, src + 1, log_ret)
       \/ pc = "set_last_poll" /\ LockingStep("sleep", Released, src, log_ret)

\* lines 631-632
LockingRateLimit ==
    /\ pc = "rate_limit"
    /\ LockingStep("for_source", lock, src + 1, log_ret)

\* lines 634-639: the _log_event of the except block, which returns to line 641
LockingExcept ==
    /\ pc = "except"
    /\ LockingStep("log_acquire", lock, src, "error_acquire")

\* lines 654-656
LockingSleep ==
    /\ pc = "sleep"
    /\ LockingStep("idle", lock, src, log_ret)

\* a step of the poller that waits for nothing
PollerStep ==
    \/ LockingCycleStart \/ LockingForSource \/ LockingFetch \/ LockingBackoff
    \/ LockingProcess
    \/ LockingBuild \/ LockingBody \/ LockingRateLimit \/ LockingExcept \/ LockingSleep

\* a step of the main thread or of a reader, after which the poller has
\* waited through w holds of the lock by a reader
OtherStep(l, m, rd, w) ==
    /\ lock' = l
    /\ main_pc' = m
    /\ readers' = rd
    /\ waits' = w
    /\ UNCHANGED <<request, extraction, scoring, snippet, producers, environ, enabled,
                   clock, store, health, poller, main_entry, reader, history>>

\* line 665: _log_event, line 144
MainBuild ==
    /\ main_pc = "log_event"
    /\ OtherStep(lock, "log_acquire", readers, waits)

\* line 145
MainAcquire ==
    /\ main_pc = "log_acquire"
    /\ CanAcquire(lock)
    /\ OtherStep(Some("main"), "log_append", readers, waits)

\* line 146 and the release of the lock
MainRelease ==
    /\ main_pc = "log_append"
    /\ OtherStep(Released, "done", readers, waits)

\* a request for /codes.json arrives: lines 1112-1116
ReaderRequest(r) ==
    /\ readers[r] = "idle"
    /\ Serving
    /\ OtherStep(lock, main_pc, [readers EXCEPT ![r] = "acquire"], waits)

\* line 1117: the lock goes to the reader, whether or not the poller (or
\* another reader) is blocked in acquire as well
ReaderAcquire(r) ==
    /\ readers[r] = "acquire"
    /\ CanAcquire(lock)
    /\ OtherStep(Some(r), main_pc, [readers EXCEPT ![r] = "copy"],
                 IF pc \in AcquirePositions THEN Min(waits + 1, MaxWaits) ELSE waits)

\* lines 1118-1141: the copy, the release of the lock and the response
ReaderCopy(r) ==
    /\ readers[r] = "copy"
    /\ OtherStep(Released, main_pc, [readers EXCEPT ![r] = "idle"], waits)

NextLocking ==
    \/ PollerStep
    \/ PollerAcquire
    \/ MainBuild
    \/ MainAcquire
    \/ MainRelease
    \/ \E r \in ReaderIds : ReaderRequest(r) \/ ReaderAcquire(r) \/ ReaderCopy(r)

\* a thread that can run is run in the end.  state.lock is a threading.Lock
\* (line 104), which keeps no queue of the threads blocked in acquire: when
\* it is released, which of them proceeds is not defined.  So a thread
\* blocked in acquire is sure of the lock only if the lock stays free, and
\* not if another thread takes it each time it is released.  Nothing makes a
\* request arrive.
FairScheduling ==
    /\ WF_vars(PollerStep)
    /\ WF_vars(PollerAcquire)
    /\ WF_vars(MainBuild)
    /\ WF_vars(MainAcquire)
    /\ WF_vars(MainRelease)
    /\ \A r \in ReaderIds : WF_vars(ReaderAcquire(r)) /\ WF_vars(ReaderCopy(r))

SpecLocking == InitLocking /\ [][NextLocking]_vars /\ FairScheduling


SpecSnippet == InitSnippet /\ [][NextSnippet]_vars

SpecScoring == InitScoring /\ [][NextScoring]_vars

SpecExtraction == InitExtraction /\ [][NextExtraction]_vars

\* the same program with two sources of the registry enabled and a short
\* poll interval
SpecConfigured == InitConfigured /\ [][Next]_vars

(***************************************************************************)
(* Properties.                                                             *)
(***************************************************************************)
Codes(cands) == {cands[k].code : k \in DOMAIN cands}
CreatedCount(token) == Cardinality({k \in DOMAIN hist : hist[k].code = token})
TokensOf(records) ==
    UNION {Range(_extract_tokens(Combined(records[j]))) : j \in DOMAIN records}
LastN(s, n) == SubSeq(s, Max(1, Len(s) - n + 1), Len(s))
CycleComplete == pc = "sleep"

\* C1: no two Candidates that are in state.candidates at the same time have
\* the same code.
NoDuplicateCodes ==
    \A i, j \in DOMAIN candidates : i # j => candidates[i].code # candidates[j].code

\* C1 witness: a token whose Candidate is still in the buffer comes up again
\* and is about to be rejected by the seen check.
NoDuplicateCodesWitness ==
    /\ pc = "seen_check"
    /\ Head(tokens) \in seen_codes
    /\ Head(tokens) \in Codes(candidates)
    /\ Len(candidates) >= 2

\* C2: in every state a reader can observe, a token is in seen_codes if and
\* only if exactly one Candidate for it has ever been appended.
SeenIffExactlyOneCandidate ==
    \A t \in seen_codes \cup Codes(hist) : (t \in seen_codes) <=> (CreatedCount(t) = 1)

\* C3: when a cycle is complete, the fetcher of every enabled source has been
\* called once in it, also after the fetch of another source raised, and
\* every new token returned to a source that succeeded has been appended as a
\* Candidate in this cycle.
FailureIsolation ==
    CycleComplete =>
        /\ \A i \in SourceIds : enabled[i] => stats[i].called = 1
        /\ \A i \in SourceIds :
              stats[i].success_incs = 1 =>
                  \A t \in TokensOf(stats[i].returned) \ seen_before :
                      \E k \in DOMAIN hist :
                          hist[k].code = t /\ hist[k].discovered_at >= start_time

\* C3 witness: a cycle is complete in which the fetch of one source raised
\* and a later source returned new tokens that were appended.
FailureIsolationWitness ==
    /\ CycleComplete
    /\ \E k, i \in SourceIds :
          /\ k < i
          /\ stats[k].raised /\ stats[k].net_failed
          /\ stats[i].success_incs = 1
          /\ TokensOf(stats[i].returned) \ seen_before # {}
          /\ \E n \in DOMAIN hist : hist[n].source = SOURCES[i].name

\* C4: when a cycle is complete, every source whose fetch failed in it has
\* been recorded as a failure: one error_count increment, last_error set, one
\* error entry, and no success_count increment.
FailedFetchRecordedAsFailure ==
    CycleComplete =>
        \A i \in SourceIds :
            stats[i].net_failed =>
                /\ stats[i].error_incs = 1
                /\ stats[i].error_logs = 1
                /\ stats[i].success_incs = 0
                /\ last_error[i] # None

\* C5: when a cycle is complete, exactly one error entry naming source k has
\* been appended in it for every source k whose fetch failed in it.
OneErrorEntryPerFailedFetch ==
    CycleComplete =>
        \A i \in SourceIds : stats[i].net_failed => stats[i].error_logs = 1

\* C6: no error raised inside an iteration of the polling loop ends the
\* poller thread.
PollerNeverTerminates == pc # "dead"

\* the health table and the counters a snapshot shows
SnapshotHealth(snapshot) ==
    [last_success |-> [i \in SourceIds |-> snapshot.sources[i].last_success],
     last_error |-> [i \in SourceIds |-> snapshot.sources[i].last_error],
     success_count |-> snapshot.success_count,
     error_count |-> snapshot.error_count]

\* C7: the health table and counters of every snapshot codes_json returns are
\* those the store had after some completed recordSuccess / recordFailure (or
\* initially): no snapshot shows a half-done one.
SnapshotIsConsistent ==
    rpc = "release" => SnapshotHealth(snap[1]) \in commits

\* C8: every write to the shared state is made by a thread that holds
\* state.lock.
WritesHoldLock ==
    [][/\ <<candidates, seen_codes, last_poll, error_count, success_count, last_success,
            last_error>>' #
          <<candidates, seen_codes, last_poll, error_count, success_count, last_success,
            last_error>> => lock = Some("poller")
       /\ activity_log' # activity_log => lock \in {Some("poller"), Some("main")}]_vars

\* C9: the candidate buffer never holds more than MAX_CANDIDATES entries and
\* the activity log never more than MAX_LOG_ENTRIES.
CapacityBound ==
    /\ Len(candidates) <= MAX_CANDIDATES
    /\ Len(activity_log) <= MAX_LOG_ENTRIES

\* C9 witness: both buffers are full after more appends than they hold.
CapacityBoundWitness ==
    /\ CycleComplete
    /\ Len(hist) > MAX_CANDIDATES
    /\ Len(candidates) = MAX_CANDIDATES
    /\ Len(activity_log) = MAX_LOG_ENTRIES

\* C10: the candidate buffer is always the last MAX_CANDIDATES Candidates
\* appended, in their insertion order; a snapshot does not change it.
FifoEviction == candidates = LastN(hist, MAX_CANDIDATES)

\* C10 witness: a snapshot is complete after the buffer overflowed.
FifoEvictionWitness ==
    /\ rpc = "release"
    /\ Len(hist) > MAX_CANDIDATES
    /\ hist[1] \notin Range(candidates)

\* the Candidates appended in the current cycle
AppendedThisCycle == {k \in DOMAIN hist : hist[k].discovered_at >= start_time}

\* the poller is between line 590 and the _log_event of line 592 for the
\* Candidate it just appended
LoggingNewCandidate ==
    pc \in {"log_acquire", "log_append"} /\ log_entry.message.kind = "new"

\* C11: in a cycle the poller appends one cycle-start entry, one outcome entry
\* per enabled source (a debug entry when the iteration succeeded, an error
\* entry when it raised, never both and never none), one summary entry, and
\* one success entry per Candidate it appended in the cycle.
OneLogEntryPerEvent ==
    /\ cycle_logs.start <= 1 /\ cycle_logs.summary <= 1
    /\ \A i \in SourceIds : stats[i].debug_logs + stats[i].error_logs <= 1
    /\ pc \notin {"idle", "dead"} =>
          cycle_logs.new = Cardinality(AppendedThisCycle)
                             - (IF LoggingNewCandidate THEN 1 ELSE 0)
    /\ CycleComplete =>
          /\ cycle_logs.start = 1 /\ cycle_logs.summary = 1
          /\ \A i \in SourceIds :
                enabled[i] =>
                    /\ stats[i].raised =>
                          stats[i].error_logs = 1 /\ stats[i].debug_logs = 0
                    /\ ~stats[i].raised =>
                          stats[i].debug_logs = 1 /\ stats[i].error_logs = 0

\* C11 witness: a cycle is complete in which one source raised, another
\* succeeded, and Candidates were appended.
OneLogEntryPerEventWitness ==
    /\ CycleComplete
    /\ \E i, k \in SourceIds : stats[i].raised /\ stats[k].success_incs = 1
    /\ cycle_logs.new >= 2

\* source i has been handled in this cycle: its outcome is counted and logged
Handled(i) ==
    /\ stats[i].called = 1
    /\ stats[i].success_incs + stats[i].error_incs = 1
    /\ stats[i].debug_logs + stats[i].error_logs = 1

\* the poller is inside _process_entries
Processing ==
    pc \in {"process", "seen_acquire", "seen_check", "build", "append_acquire", "append"}
    \/ LoggingNewCandidate

\* C12: within a cycle the sources are handled one at a time in the order of
\* SOURCES: while source src is being handled every enabled source before it
\* is completely handled (fetched, counted, logged) and no source after it
\* has been touched; the entries being processed are those the fetch of src
\* returned; the cycle-end sleep is reached only when all are handled.
SequentialInOrder ==
    /\ pc \notin {"idle", "dead"} =>
          /\ \A i \in SourceIds : i < src /\ enabled[i] => Handled(i)
          /\ \A i \in SourceIds : i > src => stats[i] = NoStats[i]
    /\ pc = "fetch" /\ attempt = 0 => stats[src] = NoStats[src]
    /\ pc = "backoff" \/ (pc = "fetch" /\ attempt > 0) =>
          stats[src] = [NoStats[src] EXCEPT !.called = 1]
    /\ Processing =>
          /\ stats[src].called = 1 /\ ~stats[src].raised
          /\ entries = stats[src].returned
          /\ stats[src].success_incs + stats[src].error_incs = 0
    /\ CycleComplete => \A i \in SourceIds : enabled[i] => Handled(i)

\* C12 witness: the fetch of the last enabled source is about to begin
\* after an earlier source raised and another one succeeded with new
\* Candidates.
SequentialInOrderWitness ==
    /\ pc = "fetch" /\ src = Bluesky /\ attempt = 0
    /\ \A i \in SourceIds : i > src => ~enabled[i]
    /\ stats[RedditConfigured].raised /\ Handled(RedditConfigured)
    /\ stats[XLive].success_incs = 1 /\ Handled(XLive)
    /\ hist # <<>>

\* C13: a source whose enabled flag is false is skipped: its fetcher is never
\* called, its last_success and last_error stay unset, no log entry names it,
\* and the counters only count the iterations of the enabled sources.
DisabledSourceSkipped ==
    /\ \A i \in SourceIds :
          ~enabled[i] =>
              /\ stats[i] = NoStats[i]
              /\ last_success[i] = None /\ last_error[i] = None
              /\ \A k \in DOMAIN activity_log : i \notin Names(activity_log[k])
    /\ success_count + error_count <= cycle * EnabledCount

\* C13 witness: a second cycle is complete in which the sources before and
\* after the disabled sources were handled.
DisabledSourceSkippedWitness ==
    /\ CycleComplete /\ cycle = 2
    /\ ~enabled[XLive] /\ Handled(RedditConfigured) /\ Handled(Bluesky)
    /\ success_count + error_count = cycle * EnabledCount

\* the attempts of the request made so far that failed
FailedAttempts == {k \in DOMAIN request.outcomes : AttemptFails(request.outcomes[k])}

\* C14: _make_request makes at most 3 attempts; it returns the first response
\* that is no error without a further attempt or wait; it waits 1 second
\* after the first failed attempt and 2 after the second, and only when
\* another attempt follows; after the third failure it raises without a wait.
RetryBackoff ==
    LET made == Len(request.outcomes) IN
    /\ made <= 3
    /\ request.sleeps = SubSeq(<<1, 2>>, 1, Len(request.sleeps))
    /\ request.pc # "unreachable"
    /\ request.pc = "try" =>
          FailedAttempts = 1..made /\ Len(request.sleeps) = made
    /\ request.pc = "except" =>
          FailedAttempts = 1..made /\ Len(request.sleeps) = made - 1
    /\ request.pc = "returned" =>
          FailedAttempts = 1..(made - 1) /\ Len(request.sleeps) = made - 1
    /\ request.pc = "raised" =>
          made = 3 /\ FailedAttempts = 1..3 /\ request.sleeps = <<1, 2>>

\* C14 witness: the third attempt succeeded after two failures and two waits.
RetryBackoffWitness ==
    /\ request.pc = "returned"
    /\ Len(request.outcomes) = 3
    /\ request.sleeps = <<1, 2>>

\* the poller has just finished the sleep of a cycle: the cycle ended, and
\* the sleep began, at the time line 652 stored in last_poll
JustSlept == pc = "idle" /\ cycle > 0 /\ config # None

\* the time from the start of the last cycle to its end
Elapsed == last_poll[1] - start_time

\* C15: the sleep after a cycle is max(poll_interval - elapsed, 5): never
\* shorter than 5 seconds, also when the cycle took longer than the poll
\* interval, and poll_interval - elapsed whenever that is at least 5.
SleepIsFlooredRemainder ==
    JustSlept =>
        LET slept == clock - last_poll[1]
            remainder == config[1].poll_interval - Elapsed
        IN /\ slept >= 5
           /\ remainder >= 5 => slept = remainder
           /\ remainder < 5 => slept = 5

\* C15 witness: a cycle that took longer than the poll interval was followed
\* by a sleep.
SleepIsFlooredRemainderWitness ==
    JustSlept /\ Elapsed > config[1].poll_interval /\ clock - last_poll[1] = 5

\* a cycle shorter than the poll interval by at least 5 seconds was followed
\* by a sleep of the remainder
SleepsRemainder ==
    JustSlept /\ config[1].poll_interval - Elapsed > 5
              /\ clock - last_poll[1] = config[1].poll_interval - Elapsed

\* C16: a source's last_error, once set by a failure, is retained when a
\* later fetch of the source succeeds: no step resets it to None.
LastErrorRetained ==
    [][\A i \in SourceIds : last_error[i] # None => last_error'[i] # None]_vars

\* a source succeeded in the cycle after one in which it failed
SucceededAfterFailure ==
    \E i \in SourceIds :
        /\ stats[i].success_incs = 1
        /\ last_success[i] # None
        /\ \E c \in commits : c.last_error[i] # None

\* C17: no step of codes_json changes the store: the candidates and their
\* order, seen_codes, the activity log, the counters, last_poll and every
\* source's last_success and last_error are the same after it as before.
SnapshotReadOnly ==
    [][rpc' # rpc \/ snap' # snap => UNCHANGED <<store, health>>]_vars

\* C17 witness: codes_json has built a complete snapshot of a store that
\* holds Candidates, log entries, a poll time and health records.
SnapshotReadOnlyWitness ==
    /\ rpc = "release"
    /\ Len(candidates) >= 2 /\ Len(activity_log) >= 2
    /\ last_poll # None /\ seen_codes # {}
    /\ \E i \in SourceIds : last_success[i] # None
    /\ \E i \in SourceIds : last_error[i] # None

\* C18: a snapshot lists the candidates and the activity log newest first,
\* the exact reverse of the buffers' insertion order at the instant of the
\* snapshot, and its total_candidates is the length of its candidates list.
SnapshotNewestFirst ==
    snap # NoSnapshot =>
        LET s == snap[1] IN
        /\ Len(s.candidates) = Len(candidates)
        /\ \A k \in DOMAIN candidates :
              s.candidates[k] = candidates[Len(candidates) + 1 - k]
        /\ Len(s.activity_log) = Len(activity_log)
        /\ \A k \in DOMAIN activity_log :
              s.activity_log[k] = activity_log[Len(activity_log) + 1 - k]
        /\ \A k \in DOMAIN s.candidates : \A n \in DOMAIN s.candidates :
              k < n => s.candidates[k].discovered_at >= s.candidates[n].discovered_at
        /\ s.total_candidates = Len(s.candidates)

\* C18 witness: a snapshot of two Candidates discovered at different times
\* and of a full activity log has been built.
SnapshotNewestFirstWitness ==
    /\ rpc = "release"
    /\ Len(snap[1].candidates) = 2
    /\ snap[1].candidates[1].discovered_at > snap[1].candidates[2].discovered_at
    /\ Len(snap[1].activity_log) = MAX_LOG_ENTRIES

\* the poller is between marking token t as seen (line 571) and appending
\* its Candidate (line 590)
InFlight(t) == pc \in {"build", "append_acquire", "append"} /\ Head(tokens) = t

\* the records any fetch can return
AllRecords ==
    UNION {Range(Fetcher(SOURCES[i], body, DEFAULT_MAX_POSTS).entries) :
             <<i, body>> \in {<<i, body>> \in SourceIds \X UNION {Bodies(k) : k \in SourceIds} :
                                 body \in Bodies(i)}}

\* C19: once the poller is done with a never-seen token of a fetched record,
\* the token is in seen_codes and exactly one Candidate with that code has
\* been appended, carrying the url of a record that contains the token and
\* the name of a source; processing the record again adds no other.
NewTokenYieldsOneCandidate ==
    \A t \in seen_codes :
        ~InFlight(t) =>
            /\ CreatedCount(t) = 1
            /\ \A k \in DOMAIN hist :
                  hist[k].code = t =>
                      /\ hist[k].code = Upper(hist[k].code)
                      /\ \E i \in SourceIds : hist[k].source = SOURCES[i].name
                      /\ \E rec \in AllRecords :
                            rec.url = hist[k].url /\ t \in TokensOf(<<rec>>)

\* the spans i..j of the upper-cased text u that are word-bounded runs of 5
\* to 12 characters of [A-Z0-9]
TokenSpans(u) ==
    { span \in (1..Len(u)) \X (1..Len(u)) :
        /\ span[2] - span[1] + 1 \in 5..12
        /\ \A k \in span[1]..span[2] : IsTokenChar(u[k])
        /\ span[1] = 1 \/ ~IsWordChar(u[span[1] - 1])
        /\ span[2] = Len(u) \/ ~IsWordChar(u[span[2] + 1]) }

\* a run is a token: it has a digit and no excluded substring
ValidToken(run) ==
    /\ \E k \in DOMAIN run : IsDigit(run[k])
    /\ \A ex \in EXCLUDED : ~Contains(run, ex)

\* the tokens of the reference definition, and where each occurs first
ReferenceTokens(u) ==
    { run \in {SubSeq(u, span[1], span[2]) : span \in TokenSpans(u)} : ValidToken(run) }
FirstOccurrence(u, run) ==
    CHOOSE i \in 1..Len(u) :
        /\ \E span \in TokenSpans(u) : span[1] = i /\ SubSeq(u, span[1], span[2]) = run
        /\ \A span \in TokenSpans(u) : SubSeq(u, span[1], span[2]) = run => span[1] >= i

\* C20: _extract_tokens returns exactly the word-bounded runs of 5 to 12
\* characters of [A-Z0-9] of the upper-cased text that have a digit and no
\* excluded substring, each once, in the order of their first occurrence.
ExtractIsReference ==
    extraction.pc = "returned" =>
        LET u == Upper(extraction.text)
            r == extraction.result
        IN /\ Range(r) = ReferenceTokens(u)
           /\ Len(r) = Cardinality(ReferenceTokens(u))
           /\ \A a \in DOMAIN r : \A b \in DOMAIN r :
                 a < b => FirstOccurrence(u, r[a]) < FirstOccurrence(u, r[b])

\* C20 witness: a text in which a token occurs twice in different case,
\* after a word that is rejected, returned its two tokens in order.
ExtractIsReferenceWitness ==
    /\ extraction.pc = "returned"
    /\ extraction.text = <<"Z","9","z","9","Z","-","a","b","1","2","c"," ","A","B","1","2","C">>
    /\ extraction.result = <<<<"Z","9","Z","9","Z">>, <<"A","B","1","2","C">>>>

\* what the score of a text is made from: the keywords, the brand and the
\* noise words that occur in it, whatever their case
KeywordsIn(text) == {k \in DOMAIN INVITE_KEYWORDS : Contains(Lower(text), INVITE_KEYWORDS[k])}
BrandIn(text) == Contains(Lower(text), <<"s","o","r","a">>)
NoiseIn(text) == \E word \in NOISE_WORDS : Contains(Lower(text), word)

\* C21: the score of every text is in [0.1, 1.0] and is clamp(0.5 +
\* min(0.1 * keywords, 0.3) + 0.15 for the brand - 0.3 for a noise word); a
\* text with more keywords and the same brand and noise never scores lower,
\* three keywords score like four, and a text with a noise word never scores
\* higher than the text with the same keywords and brand and no noise word.
ConfidenceIsClampedSum ==
    scoring.pc = "returned" =>
        LET n == Cardinality(KeywordsIn(scoring.text))
            sum == 50 + (IF n < 3 THEN 10 * n ELSE 30)
                      + (IF BrandIn(scoring.text) THEN 15 ELSE 0)
                      - (IF NoiseIn(scoring.text) THEN 30 ELSE 0)
        IN /\ scoring.result >= 10 /\ scoring.result <= 100
           /\ scoring.result = (IF sum < 10 THEN 10 ELSE IF sum > 100 THEN 100 ELSE sum)
           /\ \A other \in ScoredTexts :
                 /\ BrandIn(other) = BrandIn(scoring.text) =>
                       /\ ( /\ NoiseIn(other) = NoiseIn(scoring.text)
                            /\ Cardinality(KeywordsIn(other)) <= n )
                          => _calculate_confidence(other, scoring.token) <= scoring.result
                       /\ ( /\ KeywordsIn(other) = KeywordsIn(scoring.text)
                            /\ ~NoiseIn(other) /\ NoiseIn(scoring.text) )
                          => scoring.result <= _calculate_confidence(other, scoring.token)

\* C21 witness: a text with four keywords, the brand and a noise word has
\* been scored 0.65.
ConfidenceIsClampedSumWitness ==
    /\ scoring.pc = "returned"
    /\ Cardinality(KeywordsIn(scoring.text)) = 4
    /\ BrandIn(scoring.text) /\ NoiseIn(scoring.text)
    /\ scoring.result = 65

\* the entities html.escape writes
Entities == { <<"&","a","m","p",";">>, <<"&","l","t",";">>, <<"&","g","t",";">>, <<"&","q","u","o","t",";">>, <<"&","#","x","2","7",";">> }

\* w stands in out from position p on
StandsAt(out, w, p) == p >= 1 /\ p + Len(w) - 1 <= Len(out) /\ SubSeq(out, p, p + Len(w) - 1) = w

\* every '<' of out opens a mark tag or its end tag, every '>' closes one,
\* and every '&' begins an entity
HtmlSafe(out) ==
    \A p \in DOMAIN out :
        /\ out[p] = "<" =>
              \/ StandsAt(out, <<"<","m","a","r","k",">">>, p)
              \/ StandsAt(out, <<"<","/","m","a","r","k",">">>, p)
        /\ out[p] = ">" =>
              \/ StandsAt(out, <<"<","m","a","r","k",">">>, p - 5)
              \/ StandsAt(out, <<"<","/","m","a","r","k",">">>, p - 6)
        /\ out[p] = "&" => \E e \in Entities : StandsAt(out, e, p)

\* the token occurs in text, whatever its case
OccursIn(text, token) ==
    \E p \in DOMAIN text :
        /\ p + Len(token) - 1 <= Len(text)
        /\ \A k \in DOMAIN token :
              text[p + k - 1] \in {token[k]} \cup Range(LowerChar(token[k]))
                                                \cup Range(UpperChar(token[k]))

\* out has the token, in some case, between a mark tag and its end tag
Marked(out, token) ==
    \E p \in DOMAIN out :
        LET q == p + 6 + Len(token)
        IN /\ q + 6 <= Len(out)
           /\ SubSeq(out, p, p + 5) = <<"<","m","a","r","k",">">>
           /\ OccursIn(SubSeq(out, p + 6, q - 1), token)
           /\ SubSeq(out, q, q + 6) = <<"<","/","m","a","r","k",">">>

\* C22: the snippet has no '<', '>' or '&' outside the mark tags and the
\* entities of the escaped text, and when the token occurs in the title or
\* the body, in any case, the snippet has the token inside a mark tag.
SnippetIsSafeAndMarked ==
    snippet.pc = "returned" =>
        /\ HtmlSafe(snippet.result)
        /\ OccursIn(Strip(snippet.title \o <<"\n">> \o snippet.body), snippet.token)
              => Marked(snippet.result, snippet.token)

\* C22 witness: a title with more than 60 characters of markup on both
\* sides of the token, in another case, gave a snippet with the token marked.
SnippetIsSafeAndMarkedWitness ==
    /\ snippet.pc = "returned"
    /\ Len(snippet.title) > 120
    /\ \E p \in DOMAIN snippet.title : snippet.title[p] = "<"
    /\ OccursIn(snippet.title, snippet.token) /\ ~Contains(snippet.title, snippet.token)
    /\ Marked(snippet.result, snippet.token)

\* C23: when two threads run _process_entries side by side on records with
\* the same token, at most one of them passes the seen check for the token,
\* and at most one Candidate for it is ever appended.
OneProducerPassesGate ==
    /\ \A p \in ProducerIds : \A q \in ProducerIds :
          p # q => producers[p].passed \cap producers[q].passed = {}
    /\ \A t \in seen_codes : CreatedCount(t) <= 1

\* C23 witness: both threads have returned, each was given a record with
\* the same token, and each appended a Candidate of its own.
OneProducerPassesGateWitness ==
    /\ producers # NoProducers
    /\ \A p \in ProducerIds : producers[p].pc = "returned" /\ producers[p].passed # {}
    /\ TokensOf(producers[1].entries) \cap TokensOf(producers[2].entries) # {}

\* the summary entry of the cycle that is complete
SummaryEntry == log_entry.message

\* C24: the summary of a cycle says that there are no new Candidates exactly
\* when none was appended in the cycle, and otherwise gives the number of
\* Candidates appended in the cycle.
SummaryCountsAppended ==
    CycleComplete =>
        /\ SummaryEntry.kind \in {"none", "discovered"}
        /\ SummaryEntry.kind = "none" <=> AppendedThisCycle = {}
        /\ SummaryEntry.kind = "discovered" =>
              SummaryEntry.items = Cardinality(AppendedThisCycle)

\* the counter increments of the current cycle
IncrementsOf(i) == stats[i].success_incs + stats[i].error_incs

\* C25: in a cycle every enabled source causes one increment of one of
\* success_count and error_count, so when a cycle is complete their sum is
\* the number of polls of enabled sources made so far; no step lowers a
\* counter.
CountersCountPolls ==
    [][/\ success_count' >= success_count /\ error_count' >= error_count
       /\ \A i \in SourceIds : IncrementsOf(i)' <= 1
       /\ CycleComplete' =>
             /\ \A i \in SourceIds : IncrementsOf(i)' = (IF enabled[i] THEN 1 ELSE 0)
             /\ success_count' + error_count' = cycle' * EnabledCount]_vars

\* C25 witness: a second cycle is complete, with successes and failures
\* counted.
CountersCountPollsWitness ==
    /\ CycleComplete /\ cycle = 2
    /\ success_count >= 1 /\ error_count >= 1
    /\ success_count + error_count = 2 * EnabledCount

\* entry is the summary entry of the cycle that ended at time t
IsSummaryOf(entry, t) ==
    entry.message.kind \in {"none", "discovered"} /\ entry.timestamp = t

\* entry was appended after the summary of the cycle that ended at time t:
\* an entry of the poller was built at t or later, and the entry of the main
\* thread (line 665), which carries the time at which line 144 built it, is
\* in a log that has lost that summary only if it was appended after it
AppendedSince(entry, t) ==
    entry.timestamp >= t \/ entry.message.kind = "init"

\* C26: last_poll is None until the first cycle has set it; when a cycle has
\* set it, every enabled source has been handled and the summary entry has
\* been appended; a snapshot that shows the last_poll of a cycle has that
\* cycle's summary entry, unless newer entries have pushed it out of the
\* full log, and every Candidate appended up to then that the buffer has
\* not evicted.
LastPollAfterSummary ==
    /\ cycle = 0 \/ (cycle = 1 /\ pc \notin {"sleep", "idle"}) => last_poll = None
    /\ last_poll # None /\ cycle > 0 /\ last_poll[1] >= start_time =>
          /\ \A i \in SourceIds : enabled[i] => Handled(i)
          /\ cycle_logs.summary = 1
          /\ pc \in {"sleep", "idle"}
    /\ snap # NoSnapshot /\ snap[1].last_poll # None =>
          LET t == snap[1].last_poll[1]
              log == snap[1].activity_log
              shown == snap[1].candidates
          IN /\ \/ \E k \in DOMAIN log : IsSummaryOf(log[k], t)
                \/ /\ Len(log) = MAX_LOG_ENTRIES
                   /\ \A k \in DOMAIN log : AppendedSince(log[k], t)
             /\ \A k \in DOMAIN hist :
                   hist[k].discovered_at <= t =>
                       \/ \E j \in DOMAIN shown : shown[j] = hist[k]
                       \/ k <= Len(hist) - MAX_CANDIDATES

\* C26 witness: a snapshot shows the last_poll of a complete cycle, that
\* cycle's summary entry and a Candidate of that cycle.
LastPollAfterSummaryWitness ==
    /\ rpc = "release"
    /\ snap[1].last_poll # None
    /\ \E k \in DOMAIN snap[1].activity_log :
          IsSummaryOf(snap[1].activity_log[k], snap[1].last_poll[1])
    /\ \E j \in DOMAIN snap[1].candidates :
          snap[1].candidates[j].discovered_at <= snap[1].last_poll[1]

\* the poller is about to wait for the delay of lines 631-632
Delaying == pc = "rate_limit" /\ SOURCES[src].rate_limit_delay > 0

\* C27: the delay between sources is applied only after a fetch that did not
\* fail, for a source whose rate_limit_delay is positive, once the success
\* has been recorded; after a failed fetch there is no such delay.
DelayOnlyAfterSuccessfulFetch ==
    [][Delaying /\ clock' > clock =>
          /\ ~stats[src].net_failed
          /\ stats[src].success_incs = 1
          /\ clock' = clock + SOURCES[src].rate_limit_delay]_vars

\* the part of C27 the success path keeps: the delay follows the recording
\* of a success and is never applied on the path through the except block
DelayFollowsRecordedSuccess ==
    [][Delaying /\ clock' > clock =>
          /\ ~stats[src].raised
          /\ stats[src].success_incs = 1 /\ stats[src].error_incs = 0
          /\ clock' = clock + SOURCES[src].rate_limit_delay]_vars

\* the poller holds state.lock
PollerHolds == lock = Some("poller")

\* the poller is inside the body of a with block
LockedPositions == {LockedBody(p) : p \in AcquirePositions}

\* C28: the poller holds state.lock exactly while it is inside the body of
\* one with block, so never while it calls a fetcher, waits between two
\* attempts of a request, sleeps or acquires the lock; the step that ends the
\* body releases the lock.
LockHeldForOneOperation ==
    [][/\ (PollerHolds <=> pc \in LockedPositions)'
       /\ pc' \in {"fetch", "backoff", "rate_limit", "sleep"} \cup AcquirePositions
             => ~PollerHolds'
       /\ PollerHolds /\ pc' # pc => lock' = None]_vars

\* C28 witness: the poller, having recorded a success under the lock, calls
\* the next fetcher while a reader holds the lock.
LockHeldForOneOperationWitness ==
    /\ pc = "fetch" /\ src > 1
    /\ success_count >= 1
    /\ lock = Some("reader")

\* the part of C29 that the lock does give: a reader holds the lock exactly
\* while it copies one snapshot, the poller exactly inside the body of a with
\* block, so no two threads hold it together; a copy ends with the lock
\* given back, and a held lock is free again in the end, so that no
\* interleaving ends with every thread blocked.
LockAlwaysFreed ==
    /\ [](\A r \in ReaderIds : lock = Some(r) <=> readers[r] = "copy")
    /\ [](PollerHolds <=> pc \in LockedPositions)
    /\ \A r \in ReaderIds : (readers[r] = "copy") ~> (readers[r] = "idle" /\ lock # Some(r))
    /\ (lock # None) ~> (lock = None)

\* the poller waits at a with statement while the readers hold the lock for
\* a second snapshot copy in a row
SecondCopyAhead ==
    /\ pc \in AcquirePositions
    /\ waits > 1
    /\ \E r \in ReaderIds : lock = Some(r) /\ readers[r] = "copy"

\* C29: under fair scheduling the poller, waiting at any with statement,
\* gets the lock, and a reader that asked for a snapshot gets the lock,
\* copies and returns; a reader holds the lock only while it copies one
\* snapshot, no two threads hold it together, and the poller, once it waits
\* at a with statement, waits through at most one snapshot copy of the
\* readers before it has the lock.
NoStarvation ==
    /\ [](\A r \in ReaderIds : lock = Some(r) <=> readers[r] = "copy")
    /\ [](PollerHolds <=> pc \in LockedPositions)
    /\ [](pc \in AcquirePositions => waits <= 1)
    /\ (pc \in AcquirePositions) ~> PollerHolds
    /\ \A r \in ReaderIds : (readers[r] = "acquire") ~> (readers[r] = "copy")
    /\ \A r \in ReaderIds : (readers[r] = "copy") ~> (readers[r] = "idle" /\ lock # Some(r))

\* C29, the progress of the poller alone: waiting at any with statement, it
\* gets the lock.
PollerGetsLock == (pc \in AcquirePositions) ~> PollerHolds

\* C30: a source whose request succeeded but whose payload has an unexpected
\* shape is handled as a source with zero records: the fetcher returns no
\* entry and does not raise, no error entry is logged, error_count is not
\* incremented, and the source is counted as a success.
MalformedPayloadIsZeroRecords ==
    \A i \in SourceIds :
        stats[i].malformed /\ ~stats[i].net_failed =>
            /\ pc # "except"
            /\ ~stats[i].raised
            /\ TokensOf(stats[i].returned) = {}
            /\ stats[i].error_logs = 0
            /\ stats[i].error_incs = 0
            /\ src > i => stats[i].success_incs = 1

\* the part of C30 the fetcher keeps: a payload in which an expected field
\* is missing, and nothing has a wrong type, is a success without candidates
AbsentFieldIsZeroRecords ==
    \A i \in SourceIds :
        /\ stats[i].malformed /\ ~stats[i].net_failed
        /\ pc # "except" /\ ~stats[i].raised /\ src > i
        => /\ TokensOf(stats[i].returned) = {}
           /\ stats[i].error_logs = 0 /\ stats[i].error_incs = 0
           /\ stats[i].success_incs = 1

\* a state the absent-field case reaches
AbsentFieldIsZeroRecordsWitness ==
    /\ stats[RedditConfigured].malformed /\ stats[RedditConfigured].success_incs = 1
    /\ src > RedditConfigured

\* the Candidate of token t was appended and the buffer has dropped it
Evicted(t) == CreatedCount(t) >= 1 /\ t \notin Codes(candidates)

\* C31: state.seen_codes never loses a token; every code in state.candidates
\* is in state.seen_codes, and the buffer is no longer than the set; a token
\* whose Candidate the buffer has dropped is never appended again.
SeenCodesGateForever ==
    [][/\ seen_codes \subseteq seen_codes'
       /\ Codes(candidates') \subseteq seen_codes'
       /\ Len(candidates') <= Cardinality(seen_codes')
       /\ \A k \in DOMAIN hist :
             Evicted(hist[k].code) => hist[k].code \notin Codes(candidates')]_vars

\* C31 witness: in the second cycle a source has returned, and the poller
\* has processed, a token whose Candidate the first cycle appended and the
\* buffer has dropped since; it is still in seen_codes and was created once.
SeenCodesGateForeverWitness ==
    /\ cycle = 2
    /\ \E i \in SourceIds :
          /\ stats[i].success_incs = 1
          /\ \E t \in TokensOf(stats[i].returned) :
                /\ Evicted(t) /\ CreatedCount(t) = 1
                /\ t \in seen_codes /\ t \in seen_before
====
